---------------------------- MODULE Spec2Model ----------------------------
(***************************************************************************)
(* Model of the CTEC PDF parser (backend/app/parsing/ctec/ctec_parser.py). *)
(*                                                                         *)
(* A text is a sequence of one-character strings.  Every regular           *)
(* expression of the parser is an operator that computes, on such a        *)
(* sequence, what Python's re module computes (leftmost match, greedy and  *)
(* lazy priorities).  A local of the code that is used several times is a  *)
(* parameter of the operator that continues the computation.               *)
(***************************************************************************)
EXTENDS Integers, Sequences, FiniteSets, TLC

(***************************************************************************)
(* Characters and character classes                                        *)
(***************************************************************************)
Digit == {"0", "1", "2", "3", "4", "5", "6", "7", "8", "9"}
\* Variant: every digit is taken for a rating.
RatingDigit_AnyDigit == Digit
RatingDigit == {"1", "2", "3", "4", "5", "6"}
Space == {" ", "\n"}
Dash == {"-"}
Upper == {"A", "B", "C", "D", "E", "F", "G", "H", "I", "J", "K", "L", "M",
          "N", "O", "P", "Q", "R", "S", "T", "U", "V", "W", "X", "Y", "Z"}
Lower == {"a", "b", "c", "d", "e", "f", "g", "h", "i", "j", "k", "l", "m",
          "n", "o", "p", "q", "r", "s", "t", "u", "v", "w", "x", "y", "z"}
Letter == Upper \cup Lower
WordChar == Letter \cup Digit \cup {"_"}
OpenBracket == {"(", "[", "{"}
CloseBracket == {")", "]", "}"}

Min(S) == CHOOSE x \in S : \A y \in S : x <= y
Max(S) == CHOOSE x \in S : \A y \in S : x >= y

\* t[i], or "" past either end of the text
At(t, i) == IF i \in 1..Len(t) THEN t[i] ELSE ""

\* last index of the longest run of characters of class Cls starting at i
\* (i - 1 when the run is empty)
RunEnd(t, i, Cls) ==
    IF \A k \in i..Len(t) : t[k] \in Cls THEN Len(t)
    ELSE Min({k \in i..Len(t) : t[k] \notin Cls}) - 1

\* last index of the longest run of non-digits starting at i
NonDigitRunEnd(t, i) ==
    IF \A k \in i..Len(t) : t[k] \notin Digit THEN Len(t)
    ELSE Min({k \in i..Len(t) : t[k] \in Digit}) - 1

DigitVal(c) ==
    CASE c = "0" -> 0 [] c = "1" -> 1 [] c = "2" -> 2 [] c = "3" -> 3
      [] c = "4" -> 4 [] c = "5" -> 5 [] c = "6" -> 6 [] c = "7" -> 7
      [] c = "8" -> 8 [] c = "9" -> 9

\* int(s) for a string of decimal digits
RECURSIVE ToInt(_)
ToInt(ds) ==
    IF ds = <<>> THEN 0
    ELSE 10 * ToInt(SubSeq(ds, 1, Len(ds) - 1)) + DigitVal(ds[Len(ds)])

\* str.lower() on one character, for the letters of "total"
LowerOf(c) ==
    CASE c = "T" -> "t" [] c = "O" -> "o" [] c = "A" -> "a" [] c = "L" -> "l"
      [] OTHER -> c

\* "\n".join(lines)
RECURSIVE JoinLines(_)
JoinLines(ls) ==
    IF ls = <<>> THEN <<>>
    ELSE IF Len(ls) = 1 THEN ls[1]
    ELSE ls[1] \o <<"\n">> \o JoinLines(Tail(ls))

\* text.split('\n')
RECURSIVE SplitLines(_)
SplitAt(t, nl) ==
    <<SubSeq(t, 1, nl - 1)>> \o SplitLines(SubSeq(t, nl + 1, Len(t)))

SplitLines(t) ==
    IF \A k \in 1..Len(t) : t[k] # "\n" THEN <<t>>
    ELSE SplitAt(t, Min({k \in 1..Len(t) : t[k] = "\n"}))

\* str.strip()
StripTo(t, keep) ==
    IF keep = {} THEN <<>> ELSE SubSeq(t, Min(keep), Max(keep))

Strip(t) == StripTo(t, {k \in 1..Len(t) : t[k] \notin Space})

(***************************************************************************)
(* Matches and dictionaries                                                *)
(***************************************************************************)
NoMatch == [ok |-> FALSE]

\* Optional[int] without a value
None == -1

\* the match that starts first, of a non-empty set of matches
Leftmost(ms) == CHOOSE m \in ms : \A n \in ms : m.start <= n.start

\* re.search: the leftmost match, or None
SearchIn(ms) == IF ms = {} THEN NoMatch ELSE Leftmost(ms)

\* {int(k): int(v) for k, v in pairs}: a later pair overwrites an earlier one
DictOf(pairs) ==
    [r \in {pairs[n].k : n \in DOMAIN pairs} |->
        pairs[Max({n \in DOMAIN pairs : pairs[n].k = r})].v]

\* sum(distribution.values())
RECURSIVE SumValues(_)
SumWithout(d, r) == d[r] + SumValues([x \in DOMAIN d \ {r} |-> d[x]])

SumValues(d) == IF DOMAIN d = {} THEN 0 ELSE SumWithout(d, Min(DOMAIN d))

(***************************************************************************)
(* The five survey question texts (the keys of survey_questions).  In a    *)
(* text, a question text is one element that stands for its characters:    *)
(* letters and blanks, no digit and no bracket.                            *)
(***************************************************************************)
QuestionTexts ==
    << "Provide an overall rating of the instruction",
       "Provide an overall rating of the course",
       "Estimate how much you learned in the course",
       "Rate the effectiveness of the course in challenging you intellectually",
       "Rate the effectiveness of the instructor in stimulating your interest in the subject" >>

\* a question text that OCR garbled after its first word
GarbledTexts == <<"Provide", "Provide", "Estimate", "Rate", "Rate">>

Phrase == {QuestionTexts[k] : k \in 1..5} \cup {GarbledTexts[k] : k \in 1..5}

\* [A-Za-z\s-] of dist_pattern
LabelChar == Letter \cup Space \cup Dash \cup Phrase

(***************************************************************************)
(* dist_pattern                                                            *)
(*   (?i)([1-6])(?:[-]\s*(?:Very\s+Low|Very\s+High|[A-Za-z\s-]*?))?\s*\((\d+)\) *)
(* A match starting at i: a rating digit; then either only white space, or *)
(* a dash followed by letters, white space and dashes; then "(", a run of  *)
(* digits and ")".  "(" is in neither class, so it is the first "(" after  *)
(* i, and the match at i is unique.                                        *)
(***************************************************************************)
\* \((\d+)\) with "(" at j and the digits ending at de
DistCount(t, i, j, de) ==
    IF de >= j + 1 /\ At(t, de + 1) = ")"
    THEN [ok |-> TRUE, k |-> DigitVal(t[i]), v |-> ToInt(SubSeq(t, j + 1, de)),
          start |-> i, end |-> de + 1]
    ELSE NoMatch

\* the characters between the rating at i and the "(" at j
DistLabel(t, i, j) ==
    IF \/ \A k \in (i + 1)..(j - 1) : t[k] \in Space
       \/ /\ At(t, i + 1) \in Dash
          /\ \A k \in (i + 1)..(j - 1) : t[k] \in LabelChar
    THEN DistCount(t, i, j, RunEnd(t, j + 1, Digit))
    ELSE NoMatch

DistMatchAt(t, i) ==
    IF At(t, i) \in RatingDigit /\ \E j \in (i + 1)..Len(t) : t[j] = "("
    THEN DistLabel(t, i, Min({j \in (i + 1)..Len(t) : t[j] = "("}))
    ELSE NoMatch

\* dist_pattern.findall(text): the non-overlapping matches, left to right
RECURSIVE DistFindAll(_, _)
DistCons(t, m) == <<[k |-> m.k, v |-> m.v]>> \o DistFindAll(t, m.end + 1)

DistCollect(t, ms) == IF ms = {} THEN <<>> ELSE DistCons(t, Leftmost(ms))

DistFindAll(t, i) ==
    DistCollect(t, {m \in {DistMatchAt(t, j) : j \in i..Len(t)} : m.ok})

(***************************************************************************)
(* total_pattern  (?i)(?:total|\[?\s*total\s*\]?)\s*\((\d+)\)              *)
(* Both alternatives end in the word "total"; after it come white space,   *)
(* an optional "]", white space, "(", digits, ")".  The leftmost match is  *)
(* the one of the first "total" that is followed this way.                 *)
(***************************************************************************)
IsTotalWordAt(t, i) ==
    /\ i + 4 <= Len(t)
    /\ <<LowerOf(t[i]), LowerOf(t[i + 1]), LowerOf(t[i + 2]),
         LowerOf(t[i + 3]), LowerOf(t[i + 4])>> = <<"t", "o", "t", "a", "l">>

TotalCount(t, i, p3, de) ==
    IF At(t, p3) = "(" /\ de >= p3 + 1 /\ At(t, de + 1) = ")"
    THEN [ok |-> TRUE, v |-> ToInt(SubSeq(t, p3 + 1, de)), start |-> i]
    ELSE NoMatch

\* \((\d+)\) at p3
TotalParen(t, i, p3) == TotalCount(t, i, p3, RunEnd(t, p3 + 1, Digit))

\* \]?\s*\((\d+)\) from p1
TotalBracket(t, i, p1) ==
    TotalParen(t, i, RunEnd(t, IF At(t, p1) = "]" THEN p1 + 1 ELSE p1, Space) + 1)

TotalMatchAt(t, i) ==
    IF IsTotalWordAt(t, i)
    THEN TotalBracket(t, i, RunEnd(t, i + 5, Space) + 1)
    ELSE NoMatch

\* total_pattern.search(text)
TotalSearch(t) ==
    SearchIn({m \in {TotalMatchAt(t, i) : i \in 1..Len(t)} : m.ok})

(***************************************************************************)
(* alt_pattern1  ([1-6])[^\d]*?[\(\[\{](\d+)[\)\]\}]                       *)
(* The lazy [^\d]*? stops at the first opening bracket, inside the run of  *)
(* non-digits after the rating, that is followed by digits and a closing   *)
(* bracket.                                                                *)
(***************************************************************************)
Alt1Closes(t, j, de) == de >= j + 1 /\ At(t, de + 1) \in CloseBracket

Alt1Count(t, i, j, de) ==
    [ok |-> TRUE, k |-> DigitVal(t[i]), v |-> ToInt(SubSeq(t, j + 1, de)),
     start |-> i, end |-> de + 1]

Alt1Open(t, i, js) ==
    IF js = {} THEN NoMatch
    ELSE Alt1Count(t, i, Min(js), RunEnd(t, Min(js) + 1, Digit))

Alt1MatchAt(t, i) ==
    IF At(t, i) \in RatingDigit
    THEN Alt1Open(t, i, {j \in (i + 1)..NonDigitRunEnd(t, i + 1) :
                            /\ t[j] \in OpenBracket
                            /\ Alt1Closes(t, j, RunEnd(t, j + 1, Digit))})
    ELSE NoMatch

\* alt_pattern1.findall(text)
RECURSIVE Alt1FindAll(_, _)
Alt1Cons(t, m) == <<[k |-> m.k, v |-> m.v]>> \o Alt1FindAll(t, m.end + 1)

Alt1Collect(t, ms) == IF ms = {} THEN <<>> ELSE Alt1Cons(t, Leftmost(ms))

Alt1FindAll(t, i) ==
    Alt1Collect(t, {m \in {Alt1MatchAt(t, j) : j \in i..Len(t)} : m.ok})

(***************************************************************************)
(* The per-line pattern of the second alternative                          *)
(*   (?:^|\s)([1-6])(?:\s*[-]\s*\w+)?\s*[\(\[]?(\d+)[\)\]]?                *)
(***************************************************************************)
\* (\d+) at p2
Alt2Digits(l, p2, de) ==
    IF de >= p2 THEN [ok |-> TRUE, v |-> ToInt(SubSeq(l, p2, de))] ELSE NoMatch

\* [\(\[]?(\d+) at p1
Alt2Bracket(l, p1) ==
    IF At(l, p1) \in {"(", "["}
    THEN Alt2Digits(l, p1 + 1, RunEnd(l, p1 + 1, Digit))
    ELSE Alt2Digits(l, p1, RunEnd(l, p1, Digit))

\* \s*[\(\[]?(\d+) from position p: the count, or no match
Alt2Tail(l, p) == Alt2Bracket(l, RunEnd(l, p, Space) + 1)

\* The positions from which the tail is tried, in the order the regex engine
\* tries them.  With the optional group (a dash after the rating, then a
\* word that starts at g2 and ends at we): after the whole word, then after
\* ever shorter prefixes of it (\w+ also takes digits, so a shorter \w+ can
\* leave the count to (\d+)); last, without the group, right after the
\* rating at q.
Alt2WordEnds(q, g2, we) == [n \in 1..(we - g2 + 1) |-> we + 2 - n] \o <<q + 1>>

Alt2Word(l, q, g2) == Alt2WordEnds(q, g2, RunEnd(l, g2, WordChar))

Alt2Group(l, q, g1) ==
    IF At(l, g1) \in Dash
    THEN Alt2Word(l, q, RunEnd(l, g1 + 1, Space) + 1)
    ELSE <<q + 1>>

\* the tail from the first position from which it matches
Alt2FirstTail(q, r, tails) ==
    IF \A n \in DOMAIN tails : ~tails[n].ok THEN NoMatch
    ELSE [ok |-> TRUE, k |-> r, start |-> q,
          v |-> tails[Min({n \in DOMAIN tails : tails[n].ok})].v]

Alt2Tails(l, ps) == [n \in DOMAIN ps |-> Alt2Tail(l, ps[n])]

\* the pattern with the rating digit at q
Alt2MatchRatingAt(l, q) ==
    IF At(l, q) \in RatingDigit
    THEN Alt2FirstTail(q, DigitVal(l[q]),
                       Alt2Tails(l, Alt2Group(l, q, RunEnd(l, q + 1, Space) + 1)))
    ELSE NoMatch

\* re.search(pattern, line): the rating is at the start of the line or
\* right after a white-space character; the leftmost such match wins
Alt2Search(l) ==
    SearchIn({m \in {Alt2MatchRatingAt(l, q) :
                        q \in {p \in 1..Len(l) : p = 1 \/ l[p - 1] \in Space}} : m.ok})

\* if match: ... if 1 <= rating <= 6 and count < 1000: distribution2[rating] = count
MaxAltCount == 1000

Alt2Keep(m) ==
    IF m.ok /\ 1 <= m.k /\ m.k <= 6 /\ m.v < MaxAltCount
    THEN <<[k |-> m.k, v |-> m.v]>> ELSE <<>>

\* the loop over text.split('\n'): the kept pairs, in line order
RECURSIVE Alt2Pairs(_)
Alt2Pairs(ls) ==
    IF ls = <<>> THEN <<>>
    ELSE Alt2Keep(Alt2Search(Strip(Head(ls)))) \o Alt2Pairs(Tail(ls))

(***************************************************************************)
(* _try_alternative_distribution_extraction                                *)
(* Returns the dictionary of the first alternative that found at least     *)
(* three ratings, whatever its sum; `via` records which one it was.        *)
(***************************************************************************)
MinAltRatings == 3

NoAlt == [found |-> FALSE, dist |-> <<>>, via |-> "none"]

AltSecond(distribution2) ==
    IF Cardinality(DOMAIN distribution2) >= MinAltRatings
    THEN [found |-> TRUE, dist |-> distribution2, via |-> "alt2"]
    ELSE NoAlt

AltFirst(t, pairs1) ==
    IF pairs1 # <<>> /\ Cardinality(DOMAIN DictOf(pairs1)) >= MinAltRatings
    THEN [found |-> TRUE, dist |-> DictOf(pairs1), via |-> "alt1"]
    ELSE AltSecond(DictOf(Alt2Pairs(SplitLines(t))))

TryAlternativeDistributionExtraction(t) == AltFirst(t, Alt1FindAll(t, 1))

(***************************************************************************)
(* _extract_rating_distribution_from_question                              *)
(* kind = "ok": the returned dictionary; kind = "error": CTECParsingError  *)
(* with the two totals of its message.                                     *)
(***************************************************************************)
Returned(d, via) ==
    [kind |-> "ok", dist |-> d, via |-> via, ocr |-> 0, calc |-> 0]

TotalMismatch(ocr, calc) ==
    [kind |-> "error", dist |-> <<>>, via |-> "none", ocr |-> ocr, calc |-> calc]

\* Variant: the alternative dictionary is returned without comparing its sum
\* with the printed total.
RetryWithAlternatives_NoSumCheck(ocr_total, calculated_total, alt) ==
    IF alt.found
    THEN Returned(alt.dist, alt.via)
    ELSE TotalMismatch(ocr_total, calculated_total)

\* if ocr_total != calculated_total: alt_distribution = ...
RetryWithAlternatives(ocr_total, calculated_total, alt) ==
    IF alt.found /\ SumValues(alt.dist) = ocr_total
    THEN Returned(alt.dist, alt.via)
    ELSE TotalMismatch(ocr_total, calculated_total)

\* if total_match: ...
CheckTotal(t, distribution, total_match, calculated_total) ==
    IF total_match.ok /\ total_match.v # calculated_total
    THEN RetryWithAlternatives(total_match.v, calculated_total,
                               TryAlternativeDistributionExtraction(t))
    ELSE Returned(distribution, "primary")

\* Variant: the printed total is checked whatever validate_ocr_totals is.
ValidateTotal_Always(t, validate, distribution) ==
    CheckTotal(t, distribution, TotalSearch(t), SumValues(distribution))

\* if self.config.validate_ocr_totals: ...
ValidateTotal(t, validate, distribution) ==
    IF validate
    THEN CheckTotal(t, distribution, TotalSearch(t), SumValues(distribution))
    ELSE Returned(distribution, "primary")

ExtractRatingDistributionFromQuestion(t, validate) ==
    ValidateTotal(t, validate, DictOf(DistFindAll(t, 1)))


(***************************************************************************)
(* Header texts.  Two literals of the patterns are one element each, like  *)
(* the question texts; a word of a title, a name or a segment of a course  *)
(* code is one element too.  No such element holds a bracket, a colon, a   *)
(* comma, an underscore or white space.                                    *)
(***************************************************************************)
StudentReportFor == "Student Report for "
CtecHeader == "Course and Teacher Evaluations CTEC "
Quarters == {"Spring", "Fall", "Winter", "Summer"}

\* last index of the longest run of characters outside Cls starting at i
RunEndNot(t, i, Cls) ==
    IF \A k \in i..Len(t) : t[k] \notin Cls THEN Len(t)
    ELSE Min({k \in i..Len(t) : t[k] \in Cls}) - 1

\* the least pair of a non-empty set of pairs, in lexicographic order
LexMin(S) ==
    CHOOSE p \in S : \A q \in S : p[1] < q[1] \/ (p[1] = q[1] /\ p[2] <= q[2])

\* "." without re.DOTALL: no line feed in t[a..b]
NoNewline(t, a, b) == \A x \in a..b : t[x] # "\n"

\* \(([^)]+)\) with "(" at s and the greedy [^)]+ ending at e
InstructorEnds(t, s, e) == At(t, s) = "(" /\ e >= s + 1 /\ At(t, e + 1) = ")"

InstructorAt(t, s) == InstructorEnds(t, s, RunEndNot(t, s + 1, {")"}))

(***************************************************************************)
(* course_pattern1  Student Report for (.*?)\((.*?)\)\s*\(([^)]+)\)        *)
(* With the literal at i: the lazy title ends before the first "(" at j,   *)
(* and the lazy codes before the first ")" at k, for which the rest        *)
(* matches; j is tried in increasing order, and k for each j.              *)
(***************************************************************************)
Course1Groups(t, i, j, k, s) ==
    [ok |-> TRUE, start |-> i,
     g1 |-> SubSeq(t, i + 1, j - 1),
     g2 |-> SubSeq(t, j + 1, k - 1),
     g3 |-> SubSeq(t, s + 1, RunEndNot(t, s + 1, {")"}))]

Course1Pick(t, i, jk) ==
    Course1Groups(t, i, jk[1], jk[2], RunEnd(t, jk[2] + 1, Space) + 1)

Course1From(t, i, cands) ==
    IF cands = {} THEN NoMatch ELSE Course1Pick(t, i, LexMin(cands))

Course1MatchAt(t, i) ==
    IF At(t, i) = StudentReportFor
    THEN Course1From(t, i,
            {jk \in ((i + 1)..Len(t)) \X ((i + 2)..Len(t)) :
                /\ jk[1] < jk[2]
                /\ t[jk[1]] = "(" /\ NoNewline(t, i + 1, jk[1] - 1)
                /\ t[jk[2]] = ")" /\ NoNewline(t, jk[1] + 1, jk[2] - 1)
                /\ InstructorAt(t, RunEnd(t, jk[2] + 1, Space) + 1)})
    ELSE NoMatch

\* course_pattern1.search(text)
Course1Search(t) ==
    SearchIn({m \in {Course1MatchAt(t, i) : i \in 1..Len(t)} : m.ok})

(***************************************************************************)
(* course_pattern2  Student Report for ([^:]+):\s*(.*?)\s*\(([^)]+)\)      *)
(* With the literal at i: the greedy code runs to the first colon, at      *)
(* c + 1; the white space after it ends at w; the lazy title ends before   *)
(* the first "(" at j for which the rest matches.  Group 2 is given with   *)
(* the white space before "(": the code only uses it stripped.             *)
(***************************************************************************)
\* (.*?)\s* over t[a..b]: a line feed only in the trailing white space
TitleThenSpace(t, a, b) ==
    \A x \in a..b : t[x] = "\n" => \A y \in x..b : t[y] \in Space

Course2Groups(t, i, c, w, j) ==
    [ok |-> TRUE, start |-> i,
     g1 |-> SubSeq(t, i + 1, c),
     g2 |-> SubSeq(t, w + 1, j - 1),
     g3 |-> SubSeq(t, j + 1, RunEndNot(t, j + 1, {")"}))]

Course2From(t, i, c, w, js) ==
    IF js = {} THEN NoMatch ELSE Course2Groups(t, i, c, w, Min(js))

Course2Title(t, i, c, w) ==
    Course2From(t, i, c, w,
        {j \in (w + 1)..Len(t) :
            t[j] = "(" /\ TitleThenSpace(t, w + 1, j - 1) /\ InstructorAt(t, j)})

Course2Code(t, i, c) ==
    IF c >= i + 1 /\ At(t, c + 1) = ":"
    THEN Course2Title(t, i, c, RunEnd(t, c + 2, Space))
    ELSE NoMatch

Course2MatchAt(t, i) ==
    IF At(t, i) = StudentReportFor
    THEN Course2Code(t, i, RunEndNot(t, i + 1, {":"}))
    ELSE NoMatch

\* course_pattern2.search(text)
Course2Search(t) ==
    SearchIn({m \in {Course2MatchAt(t, i) : i \in 1..Len(t)} : m.ok})

(***************************************************************************)
(* _extract_course_info                                                    *)
(***************************************************************************)
\* s.split(sep): the pieces of s between the occurrences of sep
RECURSIVE Split(_, _)
SplitOff(s, sep, p) == <<SubSeq(s, 1, p - 1)>> \o Split(SubSeq(s, p + 1, Len(s)), sep)

Split(s, sep) ==
    IF \A k \in 1..Len(s) : s[k] # sep THEN <<s>>
    ELSE SplitOff(s, sep, Min({k \in 1..Len(s) : s[k] = sep}))

Contains(s, c) == \E k \in 1..Len(s) : s[k] = c

\* [item.split(':')[0].strip() for item in codes_part.split(',') if ':' in item]
RECURSIVE CodesOf(_)
CodesOf(items) ==
    IF items = <<>> THEN <<>>
    ELSE (IF Contains(Head(items), ":")
          THEN <<Strip(Split(Head(items), ":")[1])>> ELSE <<>>)
         \o CodesOf(Tail(items))

CourseError(msg) ==
    [kind |-> "error", type |-> "CTECParsingError", msg |-> msg, form |-> 0, full_code |-> <<>>,
     title |-> <<>>, code |-> <<>>, section |-> <<>>, instructor |-> <<>>,
     quarter |-> "", year |-> 0, audience_size |-> None, response_count |-> None]

\* CourseInfo(title=..., code=..., section=..., instructor=..., quarter="", year=0);
\* form and full_code record which pattern the selected match came from and
\* the code before it was split
CourseInfo(form, title, full_code, code, section, instructor) ==
    [kind |-> "ok", msg |-> "", form |-> form, full_code |-> full_code,
     title |-> title, code |-> code, section |-> section, instructor |-> instructor,
     quarter |-> "", year |-> 0, audience_size |-> None, response_count |-> None]

\* full_code.rsplit('_', 1) at the last underscore, at p
SplitCode(form, title, full_code, instructor, p) ==
    CourseInfo(form, title, full_code, SubSeq(full_code, 1, p - 1),
               SubSeq(full_code, p + 1, Len(full_code)), instructor)

\* if '_' in full_code: ... else: course_code = full_code; section = ""
CodeAndSection(form, title, full_code, instructor) ==
    IF Contains(full_code, "_")
    THEN SplitCode(form, title, full_code, instructor,
                   Max({k \in 1..Len(full_code) : full_code[k] = "_"}))
    ELSE CourseInfo(form, title, full_code, full_code, <<>>, instructor)

\* Variant: the last code of the list is taken.
FirstCode_LastCode(title, codes, instructor) ==
    IF codes = <<>>
    THEN CourseError("Error processing course info match")
    ELSE CodeAndSection(1, title, codes[Len(codes)], instructor)

\* full_code = codes[0]: IndexError when no item holds a colon
FirstCode(title, codes, instructor) ==
    IF codes = <<>>
    THEN CourseError("Error processing course info match")
    ELSE CodeAndSection(1, title, codes[1], instructor)

ProcessMatch(pattern_used, m) ==
    IF pattern_used = 1
    THEN FirstCode(Strip(m.g1), CodesOf(Split(Strip(m.g2), ",")), Strip(m.g3))
    ELSE CodeAndSection(2, Strip(m.g2), Strip(m.g1), Strip(m.g3))

\* Variant: Form A is used whenever it matches.
SelectMatch_PreferFormA(match1, match2) ==
    IF match1.ok THEN ProcessMatch(1, match1)
    ELSE IF match2.ok THEN ProcessMatch(2, match2)
    ELSE CourseError("Could not match course info pattern in text")

\* Select the match that appears earlier
SelectMatch(match1, match2) ==
    IF match1.ok /\ match2.ok
    THEN (IF match1.start <= match2.start
          THEN ProcessMatch(1, match1) ELSE ProcessMatch(2, match2))
    ELSE IF match1.ok THEN ProcessMatch(1, match1)
    ELSE IF match2.ok THEN ProcessMatch(2, match2)
    ELSE CourseError("Could not match course info pattern in text")

ExtractCourseInfo(text) ==
    IF text = <<>>
    THEN CourseError("Empty text provided for course info extraction")
    ELSE SelectMatch(Course1Search(text), Course2Search(text))

(***************************************************************************)
(* term_pattern                                                            *)
(*   Course and Teacher Evaluations CTEC (Spring|Fall|Winter|Summer) (\d{4}) *)
(* and _extract_term_info                                                  *)
(***************************************************************************)
YearDigits == 4

TermMatchAt(t, i) ==
    IF /\ At(t, i) = CtecHeader
       /\ At(t, i + 1) \in Quarters
       /\ At(t, i + 2) = " "
       /\ \A d \in 1..YearDigits : At(t, i + 2 + d) \in Digit
    THEN [ok |-> TRUE, start |-> i, quarter |-> t[i + 1],
          year |-> ToInt(SubSeq(t, i + 3, i + 2 + YearDigits))]
    ELSE NoMatch

TermFound(m) ==
    IF m.ok
    THEN [kind |-> "ok", msg |-> "", quarter |-> m.quarter, year |-> m.year]
    ELSE [kind |-> "error", type |-> "CTECParsingError",
          msg |-> "Could not extract term information",
          quarter |-> "", year |-> 0]

\* Variant: the last term header of the text is returned.
ExtractTermInfo_LastMatch(text) ==
    TermFound(IF \A i \in 1..Len(text) : ~TermMatchAt(text, i).ok THEN NoMatch
              ELSE TermMatchAt(text, Max({i \in 1..Len(text) : TermMatchAt(text, i).ok})))

\* match = self.term_pattern.search(text)
ExtractTermInfo(text) ==
    TermFound(SearchIn({m \in {TermMatchAt(text, i) : i \in 1..Len(text)} : m.ok}))

(***************************************************************************)
(* _clean_text                                                             *)
(***************************************************************************)
\* ' '.join(lines)
RECURSIVE JoinSpace(_)
JoinSpace(ls) ==
    IF ls = <<>> THEN <<>>
    ELSE IF Len(ls) = 1 THEN ls[1]
    ELSE ls[1] \o <<" ">> \o JoinSpace(Tail(ls))

\* [line.strip() for line in lines if line.strip()]
RECURSIVE StrippedNonEmpty(_)
KeepNonEmpty(l) == IF l = <<>> THEN <<>> ELSE <<l>>

StrippedNonEmpty(ls) ==
    IF ls = <<>> THEN <<>>
    ELSE KeepNonEmpty(Strip(Head(ls))) \o StrippedNonEmpty(Tail(ls))

CleanText(text) == JoinSpace(StrippedNonEmpty(SplitLines(text)))

(***************************************************************************)
(* State                                                                   *)
(***************************************************************************)
VARIABLES
    config,             \* ParserConfig of the parser instance
    arg,                \* the text handed to the function under study
    ret,                \* what the call returned or raised; NotCalled before it
    qi,                 \* _extract_survey_distributions_from_ocr: index of the
                        \* next question of the loop (6 after the loop)
    results,            \* its `results` dictionary
    validation_errors,  \* its `validation_errors` list
    pdf,                \* parse_ctec: the file at pdf_path
    pc,                 \* the stage parse_ctec is about to run
    trace,              \* the stages it has run, in order
    raw_text,           \* its locals
    cleaned_text,
    course_info,
    term,               \* quarter and year
    comments,
    survey_responses,
    parsed,             \* the files the parser instance parsed before, each
                        \* with the configuration it had and the outcome
    pdf_paths,          \* parse_multiple_ctecs: its list of paths
    continue_on_error,  \* its flag
    path_index,         \* the position of its loop in pdf_paths
    multi_results,      \* its `results` dictionary
    multi_ret,          \* what it returned or raised; NotCalled before
    tables,             \* the database: the rows of each table
    next_id,            \* the id the database gives to the next new row
    fault,              \* a call of the database has failed
    upload,             \* upload_ctec_data: the locals of each call in progress
    pdf_files,          \* process_ctec_batch: the files of upload_dir
    dry_run,            \* its flag
    file_index,         \* the position of its loop in pdf_files; 0 before
    batch_results,      \* its `results` dictionary
    result,             \* the record parse_and_upload_ctec returned to it
    batch_ret           \* what it returned or raised; NotCalled before

fnVars == <<config, arg, ret>>
loopVars == <<qi, results, validation_errors>>
parseVars == <<pdf, pc, trace, raw_text, cleaned_text, course_info, term,
               comments, survey_responses>>
vars == <<config, arg, ret, qi, results, validation_errors, pdf, pc, trace,
          raw_text, cleaned_text, course_info, term, comments, survey_responses,
          parsed, pdf_paths, continue_on_error, path_index, multi_results,
          multi_ret, tables, next_id, fault, upload, pdf_files, dry_run,
          file_index, batch_results, result, batch_ret>>

multiVars == <<pdf_paths, continue_on_error, path_index, multi_results, multi_ret>>
\* the variables of the callers of parse_ctec
serviceVars == <<tables, next_id, fault, upload>>
batchVars == <<pdf_files, dry_run, file_index, batch_results, result, batch_ret>>
outerVars == <<multiVars, serviceVars, batchVars>>

NotCalled == [kind |-> "none"]

\* no parse_multiple_ctecs is running
MultiIdle ==
    /\ pdf_paths = <<>> /\ continue_on_error = TRUE /\ path_index = 0
    /\ multi_results = [successful |-> <<>>, failed |-> <<>>]
    /\ multi_ret = NotCalled

\* no process_ctec_batch is running
BatchIdle ==
    /\ pdf_files = <<>> /\ dry_run = FALSE /\ file_index = 0
    /\ batch_results = <<>> /\ result = NotCalled /\ batch_ret = NotCalled

\* no upload_ctec_data is running, on an empty database
ServiceIdle ==
    /\ tables = <<>> /\ next_id = 1 /\ fault = FALSE /\ upload = <<>>

OuterIdle == MultiIdle /\ ServiceIdle /\ BatchIdle

\* no loop of _extract_survey_distributions_from_ocr is running
LoopIdle == qi = 0 /\ results = <<>> /\ validation_errors = <<>>

\* no parse_ctec is running
NoPdf == [exists |-> FALSE]

ParseIdle ==
    /\ pdf = NoPdf /\ pc = "idle" /\ trace = <<>>
    /\ raw_text = <<>> /\ cleaned_text = <<>>
    /\ course_info = NotCalled /\ term = NotCalled
    /\ comments = <<>> /\ survey_responses = <<>>

\* ParserConfig defaults (debug, ocr_dpi and ocr_timeout_seconds decide nothing)
DefaultConfig ==
    [validate_ocr_totals |-> TRUE, continue_on_ocr_errors |-> FALSE,
     extract_comments |-> TRUE, extract_demographics |-> TRUE,
     extract_time_survey |-> TRUE]

(***************************************************************************)
(* Input texts of one question block: up to MaxLines rating lines, line k  *)
(* for rating k, each in one of the printed shapes, then an optional       *)
(* "Total (n)" line.                                                       *)
(***************************************************************************)
MaxLines == 3

DigitChar(n) ==
    CASE n = 0 -> "0" [] n = 1 -> "1" [] n = 2 -> "2" [] n = 3 -> "3"
      [] n = 4 -> "4" [] n = 5 -> "5" [] n = 6 -> "6" [] n = 7 -> "7"
      [] n = 8 -> "8" [] n = 9 -> "9"

RECURSIVE Str(_)
Str(n) == IF n < 10 THEN <<DigitChar(n)>> ELSE Str(n \div 10) \o <<DigitChar(n % 10)>>

LineShapes == {"paren", "square", "bare", "label"}
LineCounts == {0, 1, 4}
BlockTotals == {2, 6}

RatingLine(shape, r, c) ==
    CASE shape = "paren"  -> Str(r) \o <<" ", "(">> \o Str(c) \o <<")">>
      [] shape = "square" -> Str(r) \o <<" ", "[">> \o Str(c) \o <<"]">>
      [] shape = "bare"   -> Str(r) \o <<" ">> \o Str(c)
      [] shape = "label"  -> Str(r) \o <<"-", "L", "o", "w", " ", "(">> \o Str(c) \o <<")">>

TotalLine(n) == <<"T", "o", "t", "a", "l", " ", "(">> \o Str(n) \o <<")">>

RatingLinesOf(f) == [k \in DOMAIN f |-> RatingLine(f[k][1], k, f[k][2])]

RatingBlocks ==
    UNION {{JoinLines(RatingLinesOf(f)) : f \in [1..n -> LineShapes \X LineCounts]}
             \cup {JoinLines(RatingLinesOf(f) \o <<TotalLine(tv)>>) :
                     f \in [1..n -> LineShapes \X LineCounts], tv \in BlockTotals} :
           n \in 0..MaxLines}

\* lines that repeat a rating, that start with a digit outside 1..6, or
\* whose count has a sign
OddLines ==
    { RatingLine("paren", 1, 1), RatingLine("paren", 1, 4), RatingLine("paren", 7, 1),
      RatingLine("square", 0, 4), RatingLine("bare", 9, 4), RatingLine("label", 6, 0),
      RatingLine("square", 2, 1), <<"3", " ", "(", "-", "4", ")">> }

OddBlocks ==
    UNION {{JoinLines(ls) : ls \in [1..n -> OddLines]}
             \cup {JoinLines(ls \o <<TotalLine(tv)>>) :
                     ls \in [1..n -> OddLines], tv \in BlockTotals} :
           n \in 1..MaxLines}

RatingTexts == RatingBlocks \cup OddBlocks

(***************************************************************************)
(* One call of _extract_rating_distribution_from_question                  *)
(***************************************************************************)
InitRating ==
    /\ parsed = <<>>
    /\ OuterIdle
    /\ config \in {[DefaultConfig EXCEPT !.validate_ocr_totals = b] : b \in BOOLEAN}
    /\ arg \in RatingTexts
    /\ ret = NotCalled
    /\ LoopIdle
    /\ ParseIdle

CallExtractRating ==
    /\ ret = NotCalled
    /\ ret' = ExtractRatingDistributionFromQuestion(arg, config.validate_ocr_totals)
    /\ UNCHANGED <<outerVars, parsed, config, arg, loopVars, parseVars>>

NextRating == CallExtractRating

SpecRating == InitRating /\ [][NextRating]_vars


(***************************************************************************)
(* Properties of _extract_rating_distribution_from_question (SpecRating)   *)
(***************************************************************************)
PrimarySum(t) == SumValues(DictOf(DistFindAll(t, 1)))
Alt1Dict(t) == DictOf(Alt1FindAll(t, 1))
Alt2Dict(t) == DictOf(Alt2Pairs(SplitLines(t)))
\* an alternative yields a distribution when it found at least three ratings
Alt1Yields(t) == Cardinality(DOMAIN Alt1Dict(t)) >= MinAltRatings
Alt2Yields(t) == Cardinality(DOMAIN Alt2Dict(t)) >= MinAltRatings

\* C1: with validate_ocr_totals on and a printed total in the block, a
\* returned distribution sums to the printed total, and when neither the
\* primary pattern nor an alternative sums to it the call raises.
C1_ReturnedSumEqualsPrintedTotal ==
    (config.validate_ocr_totals /\ ret # NotCalled /\ TotalSearch(arg).ok) =>
        LET total == TotalSearch(arg).v
        IN /\ ret.kind = "ok" => SumValues(ret.dist) = total
           /\ ( /\ PrimarySum(arg) # total
                /\ SumValues(Alt1Dict(arg)) # total
                /\ SumValues(Alt2Dict(arg)) # total ) => ret.kind = "error"

\* C1 witness: a block with a printed total whose distribution was returned
\* from an alternative pattern
C1_Witness ==
    /\ config.validate_ocr_totals
    /\ TotalSearch(arg).ok
    /\ ret.kind = "ok"
    /\ ret.via \in {"alt1", "alt2"}
    /\ DOMAIN ret.dist # {}

\* C2: when the primary sum differs from the printed total, the first
\* alternative (bracket styles, then the per-line scan) that yields a
\* distribution whose sum equals the printed total is returned.
C2_FirstMatchingFallbackReturned ==
    ( /\ config.validate_ocr_totals /\ ret # NotCalled /\ TotalSearch(arg).ok
      /\ PrimarySum(arg) # TotalSearch(arg).v ) =>
        LET total == TotalSearch(arg).v
            ok1 == Alt1Yields(arg) /\ SumValues(Alt1Dict(arg)) = total
            ok2 == Alt2Yields(arg) /\ SumValues(Alt2Dict(arg)) = total
        IN /\ ok1 => (ret.kind = "ok" /\ ret.dist = Alt1Dict(arg))
           /\ (~ok1 /\ ok2) => (ret.kind = "ok" /\ ret.dist = Alt2Dict(arg))

\* the total check sends the block on to the alternative patterns
SentToAlternatives ==
    /\ config.validate_ocr_totals
    /\ TotalSearch(arg).ok
    /\ PrimarySum(arg) # TotalSearch(arg).v

\* C27: the alternative patterns are tried only when validation is on, the
\* block has a printed total and the primary sum differs from it, and then
\* the call ends with an alternative's distribution or with the error; in
\* every other case the distribution of the primary pattern is returned as
\* it is and nothing is raised.
C27_TriageOrder ==
    ret # NotCalled =>
        /\ ~SentToAlternatives =>
              /\ ret.kind = "ok" /\ ret.via = "primary"
              /\ ret.dist = DictOf(DistFindAll(arg, 1))
        /\ SentToAlternatives =>
              \/ ret.kind = "error"
              \/ ret.kind = "ok" /\ ret.via \in {"alt1", "alt2"}

\* C27 witness: validation is off and the primary distribution of a block
\* whose printed total differs from its sum is returned
C27_Witness ==
    /\ ~config.validate_ocr_totals
    /\ TotalSearch(arg).ok /\ PrimarySum(arg) # TotalSearch(arg).v
    /\ ret # NotCalled /\ ret.kind = "ok" /\ ret.via = "primary"
    /\ DOMAIN ret.dist # {}


(***************************************************************************)
(* survey_questions: the block of question k in the OCR text (re.S)        *)
(*   k\.\s*<question text k>.*?(?=<k+1>\.\s*<first word of text k+1>)      *)
(* and, for the fifth question, to the end of the text.                    *)
(***************************************************************************)
NumQuestions == 5

FirstWord(tok) ==
    CASE tok \in {QuestionTexts[1], QuestionTexts[2], "Provide"} -> "Provide"
      [] tok \in {QuestionTexts[3], "Estimate"} -> "Estimate"
      [] tok \in {QuestionTexts[4], QuestionTexts[5], "Rate"} -> "Rate"
      [] OTHER -> ""

\* k\.\s*<question text k> matches at i; HeaderEnd is its last position
HeaderAt(t, i, k) ==
    /\ At(t, i) = DigitChar(k)
    /\ At(t, i + 1) = "."
    /\ At(t, RunEnd(t, i + 2, Space) + 1) = QuestionTexts[k]

HeaderEnd(t, i) == RunEnd(t, i + 2, Space) + 1

\* the lookahead of question k matches at m
LookaheadAt(t, m, k) ==
    /\ At(t, m) = DigitChar(k + 1)
    /\ At(t, m + 1) = "."
    /\ FirstWord(At(t, RunEnd(t, m + 2, Space) + 1)) = FirstWord(QuestionTexts[k + 1])

NoBlock == [ok |-> FALSE, block |-> <<>>]

\* the block that starts at i: to the end of the text for the last question,
\* otherwise up to the first place where the lookahead matches
BlockUntil(t, i, k, stops) ==
    IF k = NumQuestions THEN [ok |-> TRUE, block |-> SubSeq(t, i, Len(t))]
    ELSE IF stops = {} THEN NoBlock
    ELSE [ok |-> TRUE, block |-> SubSeq(t, i, Min(stops) - 1)]

BlockFrom(t, i, k) ==
    BlockUntil(t, i, k, {m \in (HeaderEnd(t, i) + 1)..Len(t) : LookaheadAt(t, m, k)})

BlockAt(t, k, starts) == IF starts = {} THEN NoBlock ELSE BlockFrom(t, Min(starts), k)

\* re.search(pattern, ocr_text, flags=re.S), match.group(0)
QuestionBlock(t, k) == BlockAt(t, k, {i \in 1..Len(t) : HeaderAt(t, i, k)})

(***************************************************************************)
(* _extract_survey_distributions_from_ocr                                  *)
(* One entry of validation_errors is "<question>: <message>"; the message  *)
(* is kept as the question and the two totals it prints.                   *)
(***************************************************************************)
\* results[question] = value
DictSet(d, key, value) ==
    [x \in DOMAIN d \cup {key} |-> IF x = key THEN value ELSE d[x]]

\* try: results[question] = ... except CTECParsingError as e: validation_errors.append(...)
SurveyStore(st, k, r) ==
    IF r.kind = "ok"
    THEN [st EXCEPT !.results = DictSet(st.results, QuestionTexts[k], r.dist)]
    ELSE [st EXCEPT !.validation_errors =
             Append(st.validation_errors,
                    [question |-> QuestionTexts[k], ocr |-> r.ocr, calc |-> r.calc])]

\* if match: ...  (a question whose block is not found is skipped)
SurveyMatch(st, k, match, validate) ==
    IF match.ok
    THEN SurveyStore(st, k, ExtractRatingDistributionFromQuestion(match.block, validate))
    ELSE st

\* the body of the loop for question k
SurveyLoopBody(st, t, k, validate) ==
    SurveyMatch(st, k, QuestionBlock(t, k), validate)

RECURSIVE SurveyLoop(_, _, _, _)
SurveyLoop(st, t, k, validate) ==
    IF k > NumQuestions THEN st
    ELSE SurveyLoop(SurveyLoopBody(st, t, k, validate), t, k + 1, validate)

\* after the loop: one aggregated CTECParsingError, or the results
SurveyOutcome(st) ==
    IF st.validation_errors # <<>>
    THEN [kind |-> "error", type |-> "CTECParsingError",
          msg |-> "OCR validation failed",
          count |-> Len(st.validation_errors),
          details |-> st.validation_errors, results |-> <<>>]
    ELSE [kind |-> "ok", msg |-> "", count |-> 0, details |-> <<>>,
          results |-> st.results]

ExtractSurveyDistributionsFromOcr(t, validate) ==
    SurveyOutcome(SurveyLoop([results |-> <<>>, validation_errors |-> <<>>],
                             t, 1, validate))

(***************************************************************************)
(* OCR texts of pages 2-3: for each question in print order, its header    *)
(* and one of a few rating blocks, or a garbled header, or nothing.        *)
(***************************************************************************)
QuestionHeader(k, text) == <<DigitChar(k), ".", " ", text, "\n">>

SurveyBodies ==
    { JoinLines(<<RatingLine("paren", 1, 1), RatingLine("label", 2, 1), TotalLine(2)>>),
      JoinLines(<<RatingLine("paren", 1, 1), RatingLine("paren", 2, 1), TotalLine(6)>>),
      JoinLines(<<RatingLine("paren", 1, 4), TotalLine(2)>>) }

QuestionSlots(k) ==
    {<<>>, QuestionHeader(k, GarbledTexts[k])}
      \cup {QuestionHeader(k, QuestionTexts[k]) \o b \o <<"\n">> : b \in SurveyBodies}

OcrTexts ==
    {s1 \o s2 \o s3 \o s4 \o s5 :
        s1 \in QuestionSlots(1), s2 \in QuestionSlots(2), s3 \in QuestionSlots(3),
        s4 \in QuestionSlots(4), s5 \in QuestionSlots(5)}

(***************************************************************************)
(* One call of _extract_survey_distributions_from_ocr, question by question*)
(***************************************************************************)
InitSurvey ==
    /\ parsed = <<>>
    /\ OuterIdle
    /\ config \in {[DefaultConfig EXCEPT !.validate_ocr_totals = b] : b \in BOOLEAN}
    /\ arg \in OcrTexts
    /\ ret = NotCalled
    /\ qi = 1 /\ results = <<>> /\ validation_errors = <<>>
    /\ ParseIdle

SurveyQuestion ==
    /\ ret = NotCalled
    /\ qi <= NumQuestions
    /\ \E st \in {SurveyLoopBody([results |-> results,
                                  validation_errors |-> validation_errors],
                                 arg, qi, config.validate_ocr_totals)} :
          /\ results' = st.results
          /\ validation_errors' = st.validation_errors
    /\ qi' = qi + 1
    /\ UNCHANGED <<outerVars, parsed, fnVars, parseVars>>

\* Variant: the aggregated error is raised as soon as one question has
\* failed, without attempting the questions after it.
SurveyFinish_AtFirstFailure ==
    /\ ret = NotCalled
    /\ (qi = NumQuestions + 1 \/ validation_errors # <<>>)
    /\ ret' = SurveyOutcome([results |-> results,
                             validation_errors |-> validation_errors])
    /\ UNCHANGED <<outerVars, parsed, config, arg, loopVars, parseVars>>

SurveyFinish ==
    /\ ret = NotCalled
    /\ qi = NumQuestions + 1
    /\ ret' = SurveyOutcome([results |-> results,
                             validation_errors |-> validation_errors])
    /\ UNCHANGED <<outerVars, parsed, config, arg, loopVars, parseVars>>

NextSurvey == SurveyQuestion \/ SurveyFinish

SpecSurvey == InitSurvey /\ [][NextSurvey]_vars


(***************************************************************************)
(* Properties of _extract_survey_distributions_from_ocr (SpecSurvey)       *)
(***************************************************************************)
\* the questions whose block is found and whose extraction raises
FailingQuestions(t, validate) ==
    {k \in 1..NumQuestions :
        /\ QuestionBlock(t, k).ok
        /\ ExtractRatingDistributionFromQuestion(QuestionBlock(t, k).block, validate).kind
              = "error"}

\* C3: the call ends only after all five questions were attempted, and if
\* any failed it raises one error that states the number of failing
\* questions and names each of them, once and in order, with its printed
\* total and its calculated total; no distribution is returned.
C3_OneAggregatedError ==
    (ret # NotCalled) =>
        LET failing == FailingQuestions(arg, config.validate_ocr_totals)
        IN /\ qi = NumQuestions + 1
           /\ (failing # {}) =>
                /\ ret.kind = "error"
                /\ ret.results = <<>>
                /\ ret.count = Cardinality(failing)
                /\ Len(ret.details) = ret.count
                /\ {ret.details[n].question : n \in DOMAIN ret.details}
                      = {QuestionTexts[k] : k \in failing}
                /\ \A n \in DOMAIN ret.details : \A k \in failing :
                      ret.details[n].question = QuestionTexts[k] =>
                        /\ ret.details[n].ocr = TotalSearch(QuestionBlock(arg, k).block).v
                        /\ ret.details[n].calc = PrimarySum(QuestionBlock(arg, k).block)
                        /\ \A m \in DOMAIN ret.details : \A j \in failing :
                              (ret.details[m].question = QuestionTexts[j] /\ j < k) => m < n

\* C3 witness: an error naming two failing questions with different totals,
\* raised although a question between or after them validated
C3_Witness ==
    /\ ret.kind = "error"
    /\ ret.count >= 2
    /\ ret.details[1].ocr # ret.details[2].ocr
    /\ results # <<>>

\* C5: a call that returns without raising returns a distribution for each
\* of the five question texts.
C5_FiveEntriesWhenReturned ==
    (ret # NotCalled /\ ret.kind = "ok") =>
        DOMAIN ret.results = {QuestionTexts[k] : k \in 1..NumQuestions}

(***************************************************************************)
(* Cleaned texts handed to _extract_course_info and _extract_term_info:    *)
(* up to two pieces (a header of either form, a term header, another       *)
(* word) separated by a blank or by a line feed.                           *)
(***************************************************************************)
CourseCodes ==
    { <<"AFST", "_", "101-7", "_", "20">>, <<"PHIL", "_", "262-0", "_", "20">>,
      <<"ECON", "_", "201">>, <<"COMP", "_", "SCI", "_", "214-0">>, <<"MATH">> }

\* the course-number segments of CourseCodes
NumberSegments == {"101-7", "262-0", "201", "214-0"}

\* Form A: title (codes) (instructor)
HeaderA(code, desc) ==
    <<StudentReportFor, "Intro", " ", "(">> \o code \o desc
        \o <<")", " ", "(", "Ann", ")">>

\* Form B: code: title (instructor)
HeaderB(code) ==
    <<StudentReportFor>> \o code \o <<":", " ", "Data", " ", "(", "Bob", ")">>

TermHeader(quarter, year) == <<CtecHeader, quarter, " ">> \o year

HeaderPieces ==
    {HeaderA(c, d) : c \in CourseCodes,
                     d \in {<<":", " ", "Intro">>, <<>>,
                            <<",", " ", "ECON", "_", "201", ":", " ", "Intro",
                              ",", " ", "MATH", ":", " ", "More">>}}
      \cup {HeaderB(c) : c \in CourseCodes}

TermPieces ==
    {TermHeader(q, y) : q \in {"Spring", "Fall", "Autumn"},
                        y \in {<<"2", "0", "2", "3">>, <<"2", "0", "2">>}}

Pieces == HeaderPieces \cup TermPieces \cup {<<"Report">>}

CleanedTexts ==
    {<<>>} \cup Pieces
      \cup {a \o <<sep>> \o b : a \in Pieces, b \in Pieces, sep \in Space}

(***************************************************************************)
(* One call of _extract_course_info or of _extract_term_info               *)
(***************************************************************************)
InitCourse ==
    /\ parsed = <<>>
    /\ OuterIdle
    /\ config = DefaultConfig
    /\ arg \in CleanedTexts
    /\ ret = NotCalled
    /\ LoopIdle
    /\ ParseIdle

CallExtractCourseInfo ==
    /\ ret = NotCalled
    /\ ret' = [fn |-> "course", out |-> ExtractCourseInfo(arg)]
    /\ UNCHANGED <<outerVars, parsed, config, arg, loopVars, parseVars>>

CallExtractTermInfo ==
    /\ ret = NotCalled
    /\ ret' = [fn |-> "term", out |-> ExtractTermInfo(arg)]
    /\ UNCHANGED <<outerVars, parsed, config, arg, loopVars, parseVars>>

NextCourse == CallExtractCourseInfo \/ CallExtractTermInfo

SpecCourse == InitCourse /\ [][NextCourse]_vars

(***************************************************************************)
(* Properties of _extract_course_info (SpecCourse)                         *)
(***************************************************************************)
CourseReturned == ret # NotCalled /\ ret.fn = "course"

\* the form whose match starts first; Form A when both start together
EarlierForm(m1, m2) ==
    IF m1.ok /\ m2.ok THEN (IF m2.start < m1.start THEN 2 ELSE 1)
    ELSE IF m1.ok THEN 1 ELSE IF m2.ok THEN 2 ELSE 0

\* a CourseInfo built from the groups of match m of form f
BuiltFrom(info, f, m) ==
    /\ info.form = f
    /\ info.title = Strip(IF f = 1 THEN m.g1 ELSE m.g2)
    /\ info.instructor = Strip(m.g3)

\* C6: when both header forms match, the CourseInfo is built from the form
\* whose match starts at the smaller offset; when one form matches, from
\* that form; when neither matches, the call raises.  (A selected Form A
\* match whose codes hold no colon raises as well.)
C6_EarliestFormUsed ==
    CourseReturned =>
        LET m1 == Course1Search(arg)
            m2 == Course2Search(arg)
            f == EarlierForm(m1, m2)
        IN /\ f = 0 => ret.out.kind = "error"
           /\ (ret.out.kind = "ok" /\ f = 1) => BuiltFrom(ret.out, 1, m1)
           /\ (ret.out.kind = "ok" /\ f = 2) => BuiltFrom(ret.out, 2, m2)
           /\ ret.out.kind = "error" => (f = 0 \/ (f = 1 /\ ~Contains(m1.g2, ":")))
           /\ (m1.ok /\ m2.ok /\ m1.start # m2.start) => ret.out.kind = "ok"

\* C6 witness: both forms match, Form B earlier, and Form B was used
C6_Witness ==
    /\ CourseReturned
    /\ Course1Search(arg).ok /\ Course2Search(arg).ok
    /\ Course2Search(arg).start < Course1Search(arg).start
    /\ ret.out.kind = "ok" /\ ret.out.form = 2

\* the code has a segment after its course-number segment
HasSectionSegment(full_code) ==
    /\ Len(full_code) >= 3
    /\ full_code[Len(full_code) - 2] \in NumberSegments
    /\ full_code[Len(full_code) - 1] = "_"

\* C7: a code with a section segment after its course number is split into
\* the base code and that segment; a code without one is kept whole, with
\* an empty section.
C7_SectionOnlyFromExtraSegment ==
    (CourseReturned /\ ret.out.kind = "ok" /\ ret.out.full_code \in CourseCodes) =>
        IF HasSectionSegment(ret.out.full_code)
        THEN /\ ret.out.code = SubSeq(ret.out.full_code, 1, Len(ret.out.full_code) - 2)
             /\ ret.out.section = <<ret.out.full_code[Len(ret.out.full_code)]>>
        ELSE /\ ret.out.code = ret.out.full_code
             /\ ret.out.section = <<>>

\* the first item of the bracketed codes that holds a colon, up to its colon
FirstColonToken(g2) ==
    LET items == Split(Strip(g2), ",")
        n == Min({k \in DOMAIN items : Contains(items[k], ":")})
    IN  Strip(Split(items[n], ":")[1])

\* C28: when both forms match the text at the same start offset, Form A is
\* used: a returned CourseInfo has the title and instructor of Form A's
\* groups and is built on the first token of the bracketed codes that is
\* followed by a colon; the call raises only when no token is.
C28_FormAOnEqualOffsets ==
    (/\ CourseReturned
     /\ Course1Search(arg).ok /\ Course2Search(arg).ok
     /\ Course1Search(arg).start = Course2Search(arg).start) =>
        LET m1 == Course1Search(arg)
        IN  IF Contains(m1.g2, ":")
            THEN /\ ret.out.kind = "ok"
                 /\ BuiltFrom(ret.out, 1, m1)
                 /\ ret.out.full_code = FirstColonToken(m1.g2)
            ELSE ret.out.kind = "error"

\* C28 witness: a Form A header that Form B matches from the same offset,
\* whose first bracketed token has no colon
C28_Witness ==
    /\ CourseReturned /\ ret.out.kind = "ok" /\ ret.out.form = 1
    /\ Course2Search(arg).ok
    /\ Course1Search(arg).start = Course2Search(arg).start
    /\ ret.out.full_code = <<"ECON", "_", "201">>
    /\ ~Contains(Split(Strip(Course1Search(arg).g2), ",")[1], ":")

(***************************************************************************)
(* _extract_text_from_pdf                                                  *)
(* A file: whether it exists, whether PdfReader reads it, the text layer   *)
(* of each page, whether it renders to images and to how many, whether     *)
(* tesseract reads the images, and the OCR text of pages 2 and 3.          *)
(***************************************************************************)
\* if extracted: text += extracted + "\n"
PageText(extracted) == IF extracted = <<>> THEN <<>> ELSE extracted \o <<"\n">>

RECURSIVE PagesText(_)
PagesText(pages) ==
    IF pages = <<>> THEN <<>>
    ELSE PageText(Head(pages)) \o PagesText(Tail(pages))

TextError(msg) ==
    [kind |-> "error", type |-> "CTECParsingError", msg |-> msg, text |-> <<>>]

\* os.path.exists(pdf_path) with a pdf_path that is no path (None): TypeError
PathError ==
    [kind |-> "error", type |-> "TypeError",
     msg |-> "stat: path should be string, bytes, os.PathLike or integer",
     text |-> <<>>]

\* if not text.strip(): raise ...; the handler around it wraps the error
TextRead(text) ==
    IF Strip(text) = <<>>
    THEN TextError("Failed to extract text: No text extracted")
    ELSE [kind |-> "ok", msg |-> "", text |-> text]

ExtractTextFromPdf(f) ==
    IF ~f.path_ok THEN PathError
    ELSE IF ~f.exists THEN TextError("PDF file not found")
    ELSE IF ~f.readable THEN TextError("Failed to extract text")
    ELSE TextRead(PagesText(f.pages))

(***************************************************************************)
(* _extract_audience_and_response_metadata                                 *)
(***************************************************************************)
CourseWords == {"Courses", "Course"}
AudienceWords == {"Audience"}
ResponseWords == {"Responses", "Response"}
ReceivedWords == {"Received"}

\* \s*:\s*$ from c
HeaderColon(l, c) == At(l, c) = ":" /\ RunEnd(l, c + 1, Space) = Len(l)

\* W2\s*:\s*$ from p
HeaderTail(l, W2, p) == At(l, p) \in W2 /\ HeaderColon(l, RunEnd(l, p + 1, Space) + 1)

\* re.match(r'^W1\s+W2\s*:\s*$', line_stripped, re.IGNORECASE)
\* (the words as the reports print them; the pattern ignores case)
IsHeaderLine(l, W1, W2) ==
    /\ At(l, 1) \in W1
    /\ At(l, 2) \in Space
    /\ HeaderTail(l, W2, RunEnd(l, 2, Space) + 1)

\* re.match(r'^\s*(\d+)\s*$', lines[i]): the digits run from a to de
NumberEnds(l, a, de) == de >= a /\ RunEnd(l, de + 1, Space) = Len(l)

NumberSpan(l, a) == NumberEnds(l, a, RunEnd(l, a, Digit))

IsNumberLine(l) == NumberSpan(l, RunEnd(l, 1, Space) + 1)

NumberOf(l) ==
    ToInt(SubSeq(l, RunEnd(l, 1, Space) + 1,
                 RunEnd(l, RunEnd(l, 1, Space) + 1, Digit)))

\* the header of a kind that the loop saw last (0: None)
LastLine(S) == IF S = {} THEN 0 ELSE Max(S)

\* range(start_search, min(start_search + 10, len(lines)))
SearchWindow == 10

\* Variant: the first number is always the audience size.
AssignNumbers_AudienceFirst(lines, audience_line, response_line, n1, n2) ==
    [audience_size |-> NumberOf(lines[n1]), response_count |-> NumberOf(lines[n2])]

\* Assign numbers based on header order
AssignNumbers(lines, audience_line, response_line, n1, n2) ==
    IF audience_line < response_line
    THEN [audience_size |-> NumberOf(lines[n1]), response_count |-> NumberOf(lines[n2])]
    ELSE [audience_size |-> NumberOf(lines[n2]), response_count |-> NumberOf(lines[n1])]

\* the first two number lines of the window, when there are two
TwoNumbers(lines, audience_line, response_line, nums) ==
    IF Cardinality(nums) >= 2
    THEN AssignNumbers(lines, audience_line, response_line,
                       Min(nums), Min(nums \ {Min(nums)}))
    ELSE [audience_size |-> None, response_count |-> None]

\* Variant: every line after the headers is searched.
NumbersAfter_NoWindow(lines, audience_line, response_line, start_search) ==
    TwoNumbers(lines, audience_line, response_line,
        {i \in start_search..Len(lines) : IsNumberLine(lines[i])})

\* for i in range(start_search, min(start_search + 10, len(lines))): ...
NumbersAfter(lines, audience_line, response_line, start_search) ==
    TwoNumbers(lines, audience_line, response_line,
        {i \in start_search..Min({start_search + SearchWindow - 1, Len(lines)}) :
            IsNumberLine(lines[i])})

HeadersFound(lines, audience_line, response_line) ==
    IF audience_line # 0 /\ response_line # 0
    THEN NumbersAfter(lines, audience_line, response_line,
                      Max({audience_line, response_line}) + 1)
    ELSE [audience_size |-> None, response_count |-> None]

AudienceLines(lines) ==
    HeadersFound(lines,
        LastLine({i \in DOMAIN lines : IsHeaderLine(Strip(lines[i]), CourseWords, AudienceWords)}),
        LastLine({i \in DOMAIN lines : IsHeaderLine(Strip(lines[i]), ResponseWords, ReceivedWords)}))

ExtractAudienceAndResponseMetadata(raw) == AudienceLines(SplitLines(raw))

(***************************************************************************)
(* _extract_comments                                                       *)
(***************************************************************************)
CommentStart ==
    "Please summarize your reaction to this course focusing on the aspects that were most important to you."
DemographicsAnchor == "DEMOGRAPHICS"
CommentsWord == "Comments"

\* the elements of the texts whose first character is an uppercase letter
UpperWords ==
    Upper \cup Phrase \cup Quarters \cup CourseWords \cup AudienceWords
      \cup ResponseWords \cup ReceivedWords
      \cup {StudentReportFor, CtecHeader, CommentStart, DemographicsAnchor,
            CommentsWord, "Great", "Loved", "Intro", "Data", "Ann", "Bob"}

\* str.find(tok, from): the first index at or after from, 0 when absent
IndexFrom(t, tok, from) ==
    IF \A k \in from..Len(t) : t[k] # tok THEN 0
    ELSE Min({k \in from..Len(t) : t[k] = tok})

\* \d+/\d+ matches at p
FractionAt(t, p) ==
    /\ At(t, p) \in Digit
    /\ At(t, RunEnd(t, p, Digit) + 1) = "/"
    /\ At(t, RunEnd(t, p, Digit) + 2) \in Digit

FractionEnd(t, p) == RunEnd(t, RunEnd(t, p, Digit) + 2, Digit)

\* re.sub(r"Student Report for .*?\d+/\d+", "", text, flags=re.DOTALL)
RECURSIVE RemoveFooters(_)
CutFooter(t, i, p) ==
    SubSeq(t, 1, i - 1) \o RemoveFooters(SubSeq(t, FractionEnd(t, p) + 1, Len(t)))

FooterFrom(t, i, ps) == IF ps = {} THEN t ELSE CutFooter(t, i, Min(ps))

FooterAt(t, i) ==
    IF i = 0 THEN t ELSE FooterFrom(t, i, {p \in (i + 1)..Len(t) : FractionAt(t, p)})

RemoveFooters(t) == FooterAt(t, IndexFrom(t, StudentReportFor, 1))

\* comment_text.replace("Comments", "")
NotCommentsWord(x) == x # CommentsWord

\* Group lines into comments: a line that starts with an uppercase letter
\* closes the comment in progress
RECURSIVE GroupLines(_, _, _)
\* Variant: every line closes the comment in progress.
GroupLines_EveryLineBreaks(lines, current, acc) ==
    IF lines = <<>>
    THEN (IF current # <<>> THEN Append(acc, JoinSpace(current)) ELSE acc)
    ELSE IF current # <<>>
    THEN GroupLines(Tail(lines), <<Head(lines)>>, Append(acc, JoinSpace(current)))
    ELSE GroupLines(Tail(lines), Append(current, Head(lines)), acc)

GroupLines(lines, current, acc) ==
    IF lines = <<>>
    THEN (IF current # <<>> THEN Append(acc, JoinSpace(current)) ELSE acc)
    ELSE IF Head(lines)[1] \in UpperWords /\ current # <<>>
    THEN GroupLines(Tail(lines), <<Head(lines)>>, Append(acc, JoinSpace(current)))
    ELSE GroupLines(Tail(lines), Append(current, Head(lines)), acc)

\* lines = [line.strip() for line in comment_text.split('\n') if line.strip()]
SpanLines(comment_text) ==
    StrippedNonEmpty(SplitLines(
        RemoveFooters(SelectSeq(Strip(comment_text), NotCommentsWord))))

CommentLines(comment_text) == GroupLines(SpanLines(comment_text), <<>>, <<>>)

\* end = raw_text.find("DEMOGRAPHICS", start); if end == -1: end = len(raw_text)
CommentSpan(raw, start, end) ==
    CommentLines(SubSeq(raw, start + 1, IF end = 0 THEN Len(raw) ELSE end - 1))

CommentsFrom(raw, start) ==
    IF start = 0 THEN <<>>
    ELSE CommentSpan(raw, start, IndexFrom(raw, DemographicsAnchor, start + 1))

ExtractComments(raw) == CommentsFrom(raw, IndexFrom(raw, CommentStart, 1))

(***************************************************************************)
(* _extract_demographic_distributions and _extract_time_survey             *)
(***************************************************************************)
Departments ==
    <<"Education & SP", "Communication", "Graduate School", "KGSM", "McCormick",
      "Medill", "Music", "Summer", "SPS", "WCAS">>
ClassYear ==
    <<"Freshman", "Sophomore", "Junior", "Senior", "Graduate", "Professional",
      "Other">>
DistributionRequirement ==
    <<"Distribution requirement", "Major/Minor requirement",
      "Elective requirement", "Non-Degree requirement", "No requirement",
      "Other requirement">>
PriorInterest ==
    <<"1-Not interested at all", "2", "3", "4", "5", "6-Extremely interested">>
TimeRanges ==
    <<"3 or fewer", "4 - 7", "8 - 11", "12 - 15", "16 - 19", "20 or more">>

SchoolQuestion == "What is the name of your school?"
ClassQuestion == "Your Class"
ReasonQuestion == "What is your reason for taking the course? (mark all that apply)"
InterestQuestion == "What was your Interest in this subject before taking the course?"
TimeQuestion ==
    "Estimate the average number of hours per week you spent on this course outside of class and lab time"

\* a run of 4301 decimal digits, one more than int() converts; the texts hold
\* such a run only as the count of a table row
LongCount == "99...9 (4301 digits)"
CountDigit == Digit \cup {LongCount}

\* int(match.group(1)) of a run of more than 4300 digits
IntError ==
    [kind |-> "error", type |-> "ValueError",
     msg |-> "Exceeds the limit (4300 digits) for integer string conversion"]

IsError(out) == "kind" \in DOMAIN out

\* [\d.]+% at b
PercentAt(t, b, pe) == pe >= b /\ At(t, pe + 1) = "%"

\* (\d+)\s+[\d.]+% with the count from a to de
CountAt(t, a, de) ==
    /\ de >= a
    /\ At(t, de + 1) \in Space
    /\ PercentAt(t, RunEnd(t, de + 1, Space) + 1,
                 RunEnd(t, RunEnd(t, de + 1, Space) + 1, Digit \cup {"."}))

\* item\s+(\d+)\s+[\d.]+% with the item at i
ItemAt(t, item, i) ==
    /\ t[i] = item
    /\ At(t, i + 1) \in Space
    /\ CountAt(t, RunEnd(t, i + 1, Space) + 1,
               RunEnd(t, RunEnd(t, i + 1, Space) + 1, CountDigit))

\* match.group(1) of the match at i
CountText(t, i) ==
    SubSeq(t, RunEnd(t, i + 1, Space) + 1,
           RunEnd(t, RunEnd(t, i + 1, Space) + 1, CountDigit))

ItemCount(t, i) == ToInt(CountText(t, i))

\* re.search(pattern, text): the positions where the pattern of item matches
ItemHits(t, item) == {i \in 1..Len(t) : ItemAt(t, item, i)}

\* int(match.group(1)) raises for some item of the category
CountFails(t, items) ==
    \E n \in DOMAIN items :
        /\ ItemHits(t, items[n]) # {}
        /\ \E k \in DOMAIN CountText(t, Min(ItemHits(t, items[n]))) :
              CountText(t, Min(ItemHits(t, items[n])))[k] = LongCount

\* the distribution of one category: its matched items and their counts
Distribution(t, items) ==
    [item \in {items[n] : n \in {n \in DOMAIN items : ItemHits(t, items[n]) # {}}} |->
        ItemCount(t, Min(ItemHits(t, item)))]

\* the keys of the prior-interest category are the integers 1..6
InterestDistribution(t) ==
    [r \in {n \in DOMAIN PriorInterest : ItemHits(t, PriorInterest[n]) # {}} |->
        ItemCount(t, Min(ItemHits(t, PriorInterest[r])))]

DemographicsOf(t) ==
    IF \E items \in {Departments, ClassYear, DistributionRequirement, PriorInterest} :
          CountFails(t, items)
    THEN IntError
    ELSE
    [q \in {SchoolQuestion, ClassQuestion, ReasonQuestion, InterestQuestion} |->
        CASE q = SchoolQuestion -> Distribution(t, Departments)
          [] q = ClassQuestion -> Distribution(t, ClassYear)
          [] q = ReasonQuestion -> Distribution(t, DistributionRequirement)
          [] q = InterestQuestion -> InterestDistribution(t)]

\* Variant: the labels are searched in the whole text.
DemographicsFrom_WholeText(text, start) ==
    IF start = 0 THEN <<>> ELSE DemographicsOf(text)

DemographicsFrom(text, start) ==
    IF start = 0 THEN <<>> ELSE DemographicsOf(SubSeq(text, start, Len(text)))

ExtractDemographicDistributions(text) ==
    DemographicsFrom(text, IndexFrom(text, DemographicsAnchor, 1))

TimeAnchor == "TIME-SURVEY QUESTION"
EssayAnchors == <<"ESSAY QUESTIONS", "Essay Questions">>

TimeSurveyOf(t) ==
    IF CountFails(t, TimeRanges) THEN IntError
    ELSE [q \in {TimeQuestion} |-> Distribution(t, TimeRanges)]

\* end = text.find("ESSAY QUESTIONS"), else text.find("Essay Questions"),
\* else len(text); time_survey_text = text[start:end]
TimeSpan(text, start, end1, end2) ==
    TimeSurveyOf(SubSeq(text, start,
        IF end1 # 0 THEN end1 - 1 ELSE IF end2 # 0 THEN end2 - 1 ELSE Len(text)))

TimeFrom(text, start) ==
    IF start = 0 THEN <<>>
    ELSE TimeSpan(text, start, IndexFrom(text, EssayAnchors[1], 1),
                  IndexFrom(text, EssayAnchors[2], 1))

ExtractTimeSurvey(text) == TimeFrom(text, IndexFrom(text, TimeAnchor, 1))

\* survey_responses.update(d)
DictUpdate(a, b) ==
    [k \in DOMAIN a \cup DOMAIN b |-> IF k \in DOMAIN b THEN b[k] ELSE a[k]]

(***************************************************************************)
(* _extract_survey_ratings_via_ocr                                         *)
(***************************************************************************)
\* if len(pages) < 3: raise ...
MinPages == 3

RatingsError(msg) ==
    [kind |-> "error", type |-> "CTECParsingError", msg |-> msg, count |-> 0, details |-> <<>>, results |-> <<>>]

ExtractSurveyRatingsViaOcr(f, validate) ==
    IF ~f.renders THEN RatingsError("Failed to extract survey ratings")
    ELSE IF f.images < MinPages THEN RatingsError("PDF has fewer than 3 pages")
    ELSE IF ~f.ocr_ok THEN RatingsError("OCR failed on page")
    ELSE ExtractSurveyDistributionsFromOcr(f.ocr[1] \o f.ocr[2], validate)

(***************************************************************************)
(* Files handed to parse_ctec.  Page 1 holds the course header, the term   *)
(* header and the audience block; pages 2 and 3 hold the comments and the  *)
(* demographic and time-survey tables; the OCR text of pages 2 and 3 holds *)
(* the five rating questions.                                              *)
(***************************************************************************)
RECURSIVE NonEmptyLines(_)
NonEmptyLines(ls) ==
    IF ls = <<>> THEN <<>>
    ELSE (IF Head(ls) = <<>> THEN <<>> ELSE <<Head(ls)>>) \o NonEmptyLines(Tail(ls))

AudienceBlock ==
    << <<"Courses", " ", "Audience", " ", ":">>,
       <<"Responses", " ", "Received", " ", ":">>,
       <<"2", "1", "7">>, <<"1", "8", "3">> >>

HeaderLines ==
    { HeaderB(<<"ECON", "_", "201">>),
      HeaderA(<<"AFST", "_", "101-7", "_", "20">>, <<":", " ", "Intro">>),
      <<>> }

TermLines ==
    { << TermHeader("Spring", <<"2", "0", "2", "3">>) >>,
      << TermHeader("Fall", <<"2", "0", "2", "2">>),
         TermHeader("Spring", <<"2", "0", "2", "3">>) >>,
      << >> }

FirstPage(header, terms) == JoinLines(NonEmptyLines(<<header>> \o terms \o AudienceBlock))

CommentsPage ==
    JoinLines(<< <<CommentStart>>, <<CommentsWord>>,
                 <<"Great", " ", "class">>, <<"really">>, <<"Loved", " ", "it">>,
                 <<StudentReportFor, "Intro", " ", "3", "/", "5">> >>)

TablesPage ==
    JoinLines(<< <<DemographicsAnchor>>,
                 <<"Freshman", " ", "3", " ", "2", "5", ".", "0", "%">>,
                 <<"WCAS", " ", "1", "2", " ", "1", "0", "0", "%">>,
                 <<"2", " ", "4", " ", "3", "3", "%">>,
                 <<TimeAnchor>>,
                 <<"4 - 7", " ", "5", " ", "5", "0", "%">>,
                 <<EssayAnchors[1]>> >>)

\* a tables page with a count of 4301 digits in the row of label
LongCountPage(label) ==
    JoinLines(<< <<DemographicsAnchor>>,
                 <<"WCAS", " ">> \o (IF label = "WCAS" THEN <<LongCount>> ELSE <<"1", "2">>)
                     \o <<" ", "1", "0", "0", "%">>,
                 <<TimeAnchor>>,
                 <<"4 - 7", " ">> \o (IF label = "4 - 7" THEN <<LongCount>> ELSE <<"5">>)
                     \o <<" ", "5", "0", "%">>,
                 <<EssayAnchors[1]>> >>)

BodyPages == { <<CommentsPage, TablesPage>>, <<<<"Report">>, <<>>>> }

ValidBody ==
    JoinLines(<<RatingLine("paren", 1, 1), RatingLine("label", 2, 1), TotalLine(2)>>)
MismatchBody ==
    JoinLines(<<RatingLine("paren", 1, 1), RatingLine("paren", 2, 1), TotalLine(6)>>)

Question(k, body) == QuestionHeader(k, QuestionTexts[k]) \o body \o <<"\n">>

\* the OCR text of page 2 (questions 1-3) and of page 3 (questions 4-5)
ValidOcr ==
    << Question(1, ValidBody) \o Question(2, ValidBody) \o Question(3, ValidBody),
       Question(4, ValidBody) \o Question(5, ValidBody) >>

OcrPages ==
    { ValidOcr,
      << Question(1, ValidBody) \o Question(2, MismatchBody) \o Question(3, ValidBody),
         Question(4, ValidBody) \o Question(5, MismatchBody) >>,
      << Question(1, ValidBody) \o Question(2, ValidBody) \o Question(3, ValidBody),
         QuestionHeader(4, GarbledTexts[4]) \o Question(5, ValidBody) >> }

Pdf(pages, images, ocr) ==
    [path_ok |-> TRUE, exists |-> TRUE, readable |-> TRUE, pages |-> pages,
     renders |-> TRUE, images |-> images, ocr_ok |-> TRUE, ocr |-> ocr]

GoodPdf ==
    Pdf(<<FirstPage(HeaderB(<<"ECON", "_", "201">>),
                    <<TermHeader("Spring", <<"2", "0", "2", "3">>)>>),
          CommentsPage, TablesPage>>,
        3, ValidOcr)

Pdfs ==
    {Pdf(<<FirstPage(h, tm)>> \o b, 3, o) :
        h \in HeaderLines, tm \in TermLines, b \in BodyPages, o \in OcrPages}
      \cup {Pdf(<<FirstPage(h, tm), CommentsPage \o <<"\n">> \o TablesPage>>, 2, o) :
              h \in HeaderLines, tm \in TermLines, o \in OcrPages}
      \cup { [GoodPdf EXCEPT !.path_ok = FALSE],
             [GoodPdf EXCEPT !.exists = FALSE],
             [GoodPdf EXCEPT !.exists = FALSE, !.readable = FALSE],
             [GoodPdf EXCEPT !.readable = FALSE],
             [GoodPdf EXCEPT !.pages[3] = LongCountPage("WCAS")],
             [GoodPdf EXCEPT !.pages[3] = LongCountPage("4 - 7")],
             [GoodPdf EXCEPT !.renders = FALSE],
             [GoodPdf EXCEPT !.ocr_ok = FALSE],
             [GoodPdf EXCEPT !.pages = << <<>>, <<>>, <<>> >>],
             [GoodPdf EXCEPT !.pages = << <<" ">>, <<"\n", " ">>, <<>> >>] }

Configs ==
    [validate_ocr_totals : BOOLEAN, continue_on_ocr_errors : BOOLEAN,
     extract_comments : BOOLEAN, extract_demographics : BOOLEAN,
     extract_time_survey : BOOLEAN]

(***************************************************************************)
(* parse_ctec, stage by stage                                              *)
(***************************************************************************)
Init ==
    /\ parsed = <<>>
    /\ OuterIdle
    /\ config \in Configs
    /\ pdf \in Pdfs
    /\ pc = "text" /\ trace = <<>>
    /\ raw_text = <<>> /\ cleaned_text = <<>>
    /\ course_info = NotCalled /\ term = NotCalled
    /\ comments = <<>> /\ survey_responses = <<>>
    /\ arg = <<>> /\ ret = NotCalled
    /\ LoopIdle

\* raise CTECParsingError(msg) out of parse_ctec
Raised(msg) ==
    [kind |-> "error", type |-> "CTECParsingError", msg |-> msg,
     course_info |-> NotCalled, comments |-> <<>>, survey_responses |-> <<>>]

\* Variant: the handler of parse_ctec lets every exception through as it is.
ParseHandler_Unwrapped(e) == [Raised(e.msg) EXCEPT !.type = e.type]

\* except Exception as e:
\*     if isinstance(e, CTECParsingError): raise
\*     raise CTECParsingError(f"Failed to parse {pdf_path}: {e}")
ParseHandler(e) ==
    IF e.type = "CTECParsingError" THEN Raised(e.msg) ELSE Raised("Failed to parse")

\* raw_text = self._extract_text_from_pdf(pdf_path)
StageText ==
    /\ pc = "text"
    /\ trace' = Append(trace, "text")
    /\ \E r \in {ExtractTextFromPdf(pdf)} :
          IF r.kind = "ok"
          THEN raw_text' = r.text /\ pc' = "clean" /\ ret' = ret
          ELSE raw_text' = raw_text /\ pc' = "raised" /\ ret' = ParseHandler(r)
    /\ UNCHANGED <<outerVars, parsed, config, arg, loopVars, pdf, cleaned_text, course_info, term,
                   comments, survey_responses>>

\* cleaned_text = self._clean_text(raw_text)
StageClean ==
    /\ pc = "clean"
    /\ trace' = Append(trace, "clean")
    /\ cleaned_text' = CleanText(raw_text)
    /\ pc' = "course"
    /\ UNCHANGED <<outerVars, parsed, config, arg, ret, loopVars, pdf, raw_text, course_info, term,
                   comments, survey_responses>>

\* Variant: a text without a course header yields an empty CourseInfo and the
\* parse goes on.
StageCourse_ContinueOnError ==
    /\ pc = "course"
    /\ trace' = Append(trace, "course")
    /\ course_info' = ExtractCourseInfo(cleaned_text)
    /\ pc' = "term"
    /\ UNCHANGED <<outerVars, parsed, config, arg, ret, loopVars, pdf, raw_text, cleaned_text, term,
                   comments, survey_responses>>

\* course_info = self._extract_course_info(cleaned_text)
StageCourse ==
    /\ pc = "course"
    /\ trace' = Append(trace, "course")
    /\ \E r \in {ExtractCourseInfo(cleaned_text)} :
          IF r.kind = "ok"
          THEN course_info' = r /\ pc' = "term" /\ ret' = ret
          ELSE course_info' = course_info /\ pc' = "raised" /\ ret' = ParseHandler(r)
    /\ UNCHANGED <<outerVars, parsed, config, arg, loopVars, pdf, raw_text, cleaned_text, term,
                   comments, survey_responses>>

\* Variant: without a term header the quarter and the year stay unset and
\* the parse goes on.
StageTerm_NonFatal ==
    /\ pc = "term"
    /\ trace' = Append(trace, "term")
    /\ term' = ExtractTermInfo(cleaned_text)
    /\ pc' = "audience"
    /\ UNCHANGED <<outerVars, parsed, config, arg, ret, loopVars, pdf, raw_text, cleaned_text,
                   course_info, comments, survey_responses>>

\* quarter, year = self._extract_term_info(cleaned_text)
StageTerm ==
    /\ pc = "term"
    /\ trace' = Append(trace, "term")
    /\ \E r \in {ExtractTermInfo(cleaned_text)} :
          IF r.kind = "ok"
          THEN term' = r /\ pc' = "audience" /\ ret' = ret
          ELSE term' = term /\ pc' = "raised" /\ ret' = ParseHandler(r)
    /\ UNCHANGED <<outerVars, parsed, config, arg, loopVars, pdf, raw_text, cleaned_text,
                   course_info, comments, survey_responses>>

\* audience_size, response_count = ...(raw_text); course_info.quarter = quarter; ...
StageAudience ==
    /\ pc = "audience"
    /\ trace' = Append(trace, "audience")
    /\ \E r \in {ExtractAudienceAndResponseMetadata(raw_text)} :
          course_info' = [course_info EXCEPT !.quarter = term.quarter,
                                             !.year = term.year,
                                             !.audience_size = r.audience_size,
                                             !.response_count = r.response_count]
    /\ pc' = "comments"
    /\ UNCHANGED <<outerVars, parsed, config, arg, ret, loopVars, pdf, raw_text, cleaned_text, term,
                   comments, survey_responses>>

\* comments = []; if self.config.extract_comments: comments = ...(raw_text)
StageComments ==
    /\ pc = "comments"
    /\ trace' = Append(trace, "comments")
    /\ comments' = IF config.extract_comments THEN ExtractComments(raw_text) ELSE <<>>
    /\ pc' = "ratings"
    /\ UNCHANGED <<outerVars, parsed, config, arg, ret, loopVars, pdf, raw_text, cleaned_text,
                   course_info, term, survey_responses>>

\* Variant: an error of the rating stage is always raised again.
StageRatings_AlwaysRaise ==
    /\ pc = "ratings"
    /\ trace' = Append(trace, "ratings")
    /\ \E r \in {ExtractSurveyRatingsViaOcr(pdf, config.validate_ocr_totals)} :
          IF r.kind = "ok"
          THEN /\ survey_responses' = DictUpdate(survey_responses, r.results)
               /\ pc' = "demographics" /\ ret' = ret
          ELSE survey_responses' = survey_responses /\ pc' = "raised"
               /\ ret' = Raised(r.msg)
    /\ UNCHANGED <<outerVars, parsed, config, arg, loopVars, pdf, raw_text, cleaned_text,
                   course_info, term, comments>>

\* try: survey_responses.update(...(pdf_path))
\* except CTECParsingError: if not self.config.continue_on_ocr_errors: raise
StageRatings ==
    /\ pc = "ratings"
    /\ trace' = Append(trace, "ratings")
    /\ \E r \in {ExtractSurveyRatingsViaOcr(pdf, config.validate_ocr_totals)} :
          IF r.kind = "ok"
          THEN /\ survey_responses' = DictUpdate(survey_responses, r.results)
               /\ pc' = "demographics" /\ ret' = ret
          ELSE IF config.continue_on_ocr_errors
          THEN survey_responses' = survey_responses /\ pc' = "demographics"
               /\ ret' = ret
          ELSE survey_responses' = survey_responses /\ pc' = "raised"
               /\ ret' = ParseHandler(r)
    /\ UNCHANGED <<outerVars, parsed, config, arg, loopVars, pdf, raw_text, cleaned_text,
                   course_info, term, comments>>

\* if self.config.extract_demographics: survey_responses.update(...(cleaned_text))
StageDemographics ==
    /\ pc = "demographics"
    /\ trace' = Append(trace, "demographics")
    /\ IF config.extract_demographics
       THEN \E r \in {ExtractDemographicDistributions(cleaned_text)} :
               IF IsError(r)
               THEN survey_responses' = survey_responses /\ pc' = "raised"
                    /\ ret' = ParseHandler(r)
               ELSE survey_responses' = DictUpdate(survey_responses, r)
                    /\ pc' = "time" /\ ret' = ret
       ELSE survey_responses' = survey_responses /\ pc' = "time" /\ ret' = ret
    /\ UNCHANGED <<outerVars, parsed, config, arg, loopVars, pdf, raw_text, cleaned_text,
                   course_info, term, comments>>

\* Variant: the time survey is extracted whenever the demographics are.
StageTimeSurvey_WhenDemographics ==
    /\ pc = "time"
    /\ trace' = Append(trace, "time")
    /\ IF config.extract_demographics
       THEN \E r \in {ExtractTimeSurvey(cleaned_text)} :
               IF IsError(r)
               THEN survey_responses' = survey_responses /\ pc' = "raised"
                    /\ ret' = ParseHandler(r)
               ELSE survey_responses' = DictUpdate(survey_responses, r)
                    /\ pc' = "return" /\ ret' = ret
       ELSE survey_responses' = survey_responses /\ pc' = "return" /\ ret' = ret
    /\ UNCHANGED <<outerVars, parsed, config, arg, loopVars, pdf, raw_text, cleaned_text,
                   course_info, term, comments>>

\* if self.config.extract_time_survey: survey_responses.update(...(cleaned_text))
StageTimeSurvey ==
    /\ pc = "time"
    /\ trace' = Append(trace, "time")
    /\ IF config.extract_time_survey
       THEN \E r \in {ExtractTimeSurvey(cleaned_text)} :
               IF IsError(r)
               THEN survey_responses' = survey_responses /\ pc' = "raised"
                    /\ ret' = ParseHandler(r)
               ELSE survey_responses' = DictUpdate(survey_responses, r)
                    /\ pc' = "return" /\ ret' = ret
       ELSE survey_responses' = survey_responses /\ pc' = "return" /\ ret' = ret
    /\ UNCHANGED <<outerVars, parsed, config, arg, loopVars, pdf, raw_text, cleaned_text,
                   course_info, term, comments>>

\* return CTECData(course_info=..., comments=..., survey_responses=...)
ReturnData ==
    /\ pc = "return"
    /\ trace' = Append(trace, "return")
    /\ ret' = [kind |-> "ok", msg |-> "", course_info |-> course_info,
               comments |-> comments, survey_responses |-> survey_responses]
    /\ pc' = "done"
    /\ UNCHANGED <<outerVars, parsed, config, arg, loopVars, pdf, raw_text, cleaned_text,
                   course_info, term, comments, survey_responses>>

Next ==
    \/ StageText \/ StageClean \/ StageCourse \/ StageTerm \/ StageAudience
    \/ StageComments \/ StageRatings \/ StageDemographics \/ StageTimeSurvey
    \/ ReturnData

Spec == Init /\ [][Next]_vars

(***************************************************************************)
(* Properties of parse_ctec (Spec)                                         *)
(***************************************************************************)
\* the stage was entered by this parse
Ran(stage) == \E n \in DOMAIN trace : trace[n] = stage

\* parse_ctec ended with a CTECParsingError raised by the given stage
AbortedIn(stage) ==
    /\ pc = "raised"
    /\ ret.kind = "error" /\ ret.course_info = NotCalled
    /\ trace # <<>> /\ trace[Len(trace)] = stage

RatingKeys == {QuestionTexts[k] : k \in 1..NumQuestions}

\* the pages were rendered and read, and a question fails its validation
RatingsFailValidation ==
    /\ pdf.exists /\ pdf.renders /\ pdf.images >= MinPages /\ pdf.ocr_ok
    /\ FailingQuestions(pdf.ocr[1] \o pdf.ocr[2], config.validate_ocr_totals) # {}

\* the questions of the OCR text whose distribution validated
ValidatedQuestions ==
    {k \in 1..NumQuestions :
        /\ QuestionBlock(pdf.ocr[1] \o pdf.ocr[2], k).ok
        /\ k \notin FailingQuestions(pdf.ocr[1] \o pdf.ocr[2], config.validate_ocr_totals)}

\* the entries the demographic and the time-survey stage add, as configured
TableEntries ==
    DictUpdate(IF config.extract_demographics
               THEN ExtractDemographicDistributions(cleaned_text) ELSE <<>>,
               IF config.extract_time_survey
               THEN ExtractTimeSurvey(cleaned_text) ELSE <<>>)

\* C4: when a rating question fails validation, parse_ctec with
\* continue_on_ocr_errors false ends in the parsing error, raised by the
\* rating stage, and returns no result; with continue_on_ocr_errors true it
\* goes on, no rating question is ever stored in survey_responses, and the
\* result it returns holds the course info, the comments, and the
\* demographic and time-survey entries.
C4_RatingFailureAbortsOrDropsRatings ==
    (Ran("ratings") /\ RatingsFailValidation) =>
        IF ~config.continue_on_ocr_errors
        THEN AbortedIn("ratings") /\ ret.msg = "OCR validation failed"
        ELSE /\ pc # "raised"
             /\ DOMAIN survey_responses \cap RatingKeys = {}
             /\ pc = "done" =>
                  /\ ret.kind = "ok"
                  /\ ret.course_info.kind = "ok"
                  /\ ret.course_info = course_info
                  /\ ret.comments =
                        (IF config.extract_comments THEN ExtractComments(raw_text)
                         ELSE <<>>)
                  /\ DOMAIN ret.survey_responses = DOMAIN TableEntries
                  /\ \A q \in DOMAIN TableEntries :
                        ret.survey_responses[q] = TableEntries[q]

\* C4 witness: a result returned after one question failed and another
\* validated: no rating entry, but comments, demographics and time survey
C4_Witness ==
    /\ pc = "done" /\ config.continue_on_ocr_errors
    /\ RatingsFailValidation /\ ValidatedQuestions # {}
    /\ ret.kind = "ok"
    /\ DOMAIN ret.survey_responses \cap RatingKeys = {}
    /\ ret.course_info.code # <<>>
    /\ ret.comments # <<>>
    /\ {SchoolQuestion, TimeQuestion} \subseteq DOMAIN ret.survey_responses

\* the offsets of the cleaned text where a term header starts
TermHits(t) == {i \in 1..Len(t) : TermMatchAt(t, i).ok}

\* C8: the term stage yields the quarter and the year of the first term
\* header of the cleaned text, and the result carries them; without a term
\* header the stage raises and parse_ctec ends without a result.
C8_FirstTermHeaderOrAbort ==
    Ran("term") =>
        IF TermHits(cleaned_text) = {}
        THEN AbortedIn("term")
        ELSE LET i == Min(TermHits(cleaned_text))
             IN /\ term.kind = "ok"
                /\ term.quarter \in Quarters
                /\ term.quarter = cleaned_text[i + 1]
                /\ term.year = ToInt(SubSeq(cleaned_text, i + 3, i + 2 + YearDigits))
                /\ pc = "done" =>
                     /\ ret.course_info.quarter = term.quarter
                     /\ ret.course_info.year = term.year

\* C8 witness: two term headers with different terms, the first one returned
C8_Witness ==
    /\ pc = "done"
    /\ Cardinality(TermHits(cleaned_text)) = 2
    /\ cleaned_text[Max(TermHits(cleaned_text)) + 1] = "Spring"
    /\ ret.course_info.quarter = "Fall" /\ ret.course_info.year = 2022

\* C9 as stated: without a term header the term stage does not abort the
\* parse, and the result has the quarter and the year unset.
C9_AbsentTermHeaderNonFatal ==
    (Ran("term") /\ TermHits(cleaned_text) = {}) =>
        /\ pc # "raised"
        /\ pc = "done" =>
             /\ ret.kind = "ok"
             /\ ret.course_info.quarter = "" /\ ret.course_info.year = 0

\* C9: without a term header the term stage raises "Could not extract term
\* information"; parse_ctec ends there, no later stage runs, and no result,
\* partial or not, is returned.
C9_AbsentTermHeaderIsFatal ==
    (Ran("term") /\ TermHits(cleaned_text) = {}) =>
        /\ pc = "raised"
        /\ ret = Raised("Could not extract term information")
        /\ trace = <<"text", "clean", "course", "term">>
        /\ term = NotCalled
        /\ comments = <<>> /\ survey_responses = <<>>

\* C9 witness: a file with a course header and no term header, aborted by
\* the term stage
C9_Witness ==
    /\ pc = "raised"
    /\ Ran("term") /\ TermHits(cleaned_text) = {}
    /\ course_info.kind = "ok"
    /\ ret.msg = "Could not extract term information"

\* the file opens and no page holds anything but white space
NoTextLayer ==
    /\ pdf.exists /\ pdf.readable
    /\ \A n \in DOMAIN pdf.pages :
          \A k \in DOMAIN pdf.pages[n] : pdf.pages[n][k] \in Space

\* neither course header form matches the cleaned text
NoCourseHeader ==
    ~Course1Search(cleaned_text).ok /\ ~Course2Search(cleaned_text).ok

\* C10: no stage is entered twice; when no page yields text, the text stage
\* is the only stage entered and parse_ctec ends in a parsing error; when
\* neither header form matches, the course stage is the last stage entered
\* and parse_ctec ends in a parsing error; in both cases no comment and no
\* survey entry was extracted.
C10_EarlyFailureAbortsAtOnce ==
    /\ \A m, n \in DOMAIN trace : m # n => trace[m] # trace[n]
    /\ (NoTextLayer /\ trace # <<>>) =>
          /\ trace = <<"text">>
          /\ AbortedIn("text")
          /\ comments = <<>> /\ survey_responses = <<>>
    /\ (Ran("course") /\ NoCourseHeader) =>
          /\ trace = <<"text", "clean", "course">>
          /\ AbortedIn("course")
          /\ comments = <<>> /\ survey_responses = <<>>

\* C10 witness: a file with text and no course header, aborted by the
\* course stage
C10_Witness ==
    /\ pc = "raised"
    /\ Ran("course") /\ NoCourseHeader
    /\ cleaned_text # <<>>
    /\ ret.msg = "Could not match course info pattern in text"

\* C11: whatever ends parse_ctec with an exception ends it with a
\* CTECParsingError: a path that names no file raises "PDF file not found"
\* in the text stage, before the reader is opened, and an exception of
\* another type raised inside a stage reaches the caller wrapped in a
\* CTECParsingError.
C11_OnlyParsingErrorsEscape ==
    /\ pc = "raised" => (ret.kind = "error" /\ ret.type = "CTECParsingError")
    /\ (trace # <<>> /\ pdf.path_ok /\ ~pdf.exists) =>
          /\ trace = <<"text">> /\ pc = "raised"
          /\ ret.msg = "PDF file not found"
          /\ raw_text = <<>>
    /\ (trace # <<>> /\ ~pdf.path_ok) =>
          /\ trace = <<"text">> /\ pc = "raised"
          /\ ret.msg = "Failed to parse"

\* C11 witness: the TypeError of the path check, surfaced as a
\* CTECParsingError
C11_Witness ==
    /\ pc = "raised" /\ ~pdf.path_ok
    /\ ExtractTextFromPdf(pdf).type = "TypeError"
    /\ ret.type = "CTECParsingError" /\ ret.msg = "Failed to parse"

\* C12: a file that renders to fewer than three pages ends parse_ctec in
\* the parsing error of the rating stage, whatever the configuration is,
\* and no result is returned.
C12_FewerThanThreePagesIsFatal ==
    (Ran("ratings") /\ pdf.renders /\ pdf.images < MinPages) =>
        /\ AbortedIn("ratings")
        /\ ret.msg = "PDF has fewer than 3 pages"

(***************************************************************************)
(* One call of an extraction of raw or cleaned text                        *)
(* (_extract_audience_and_response_metadata, _extract_comments,            *)
(* _extract_demographic_distributions, _extract_time_survey)               *)
(***************************************************************************)
MaxMetaLines == 4

AudienceHeader == <<"Courses", " ", "Audience", " ", ":">>
ResponseHeader == <<"Responses", " ", "Received", " ", ":">>

\* the lines of the audience block: headers, bare integers, the ratio
MetaLines ==
    { AudienceHeader, ResponseHeader,
      <<"2", "1", "7">>, <<" ", "1", "8", "3", " ">>,
      <<"8", "4", ".", "3", "%">> }

\* k lines that are neither a header nor a bare integer
RatioLines(k) == [n \in 1..k |-> <<"Response", " ", "Ratio", " ", ":">>]

\* the headers in either order, k other lines, two bare integers
SpacedBlocks ==
    {JoinLines(hs \o RatioLines(k) \o << <<"2", "1", "7">>, <<"1", "8", "3">> >>) :
        hs \in { <<AudienceHeader, ResponseHeader>>, <<ResponseHeader, AudienceHeader>> },
        k \in (SearchWindow - 2)..SearchWindow}

AudienceTexts ==
    {JoinLines(ls) : ls \in UNION {[1..n -> MetaLines] : n \in 0..MaxMetaLines}}
      \cup SpacedBlocks

MaxCommentLines == 3

\* the lines of a comments section: lines that start with an uppercase
\* letter, with a lowercase letter, with a digit, with white space; an empty
\* line; the section's heading; the footer of a page
CommentPool ==
    { <<"Great", " ", "class">>, <<"Loved", " ", "it">>, <<"really">>,
      <<" ", "it", " ">>, <<"3", " ", "stars">>, <<>>, <<CommentsWord>>,
      <<StudentReportFor, "Intro", " ", "3", "/", "5">> }

CommentBodies ==
    UNION {[1..n -> CommentPool] : n \in 0..MaxCommentLines}

\* with or without the instruction sentence before the lines, and with or
\* without a demographics section after them
CommentTexts ==
    {JoinLines(pre \o body \o post) :
        pre \in { <<>>, << <<CommentStart>> >> },
        body \in CommentBodies,
        post \in { <<>>, << <<DemographicsAnchor>>, <<"Loved", " ", "it">> >> }}

MaxTableRows == 3

\* the rows of the tables of a cleaned text, and the section headings
TableRows ==
    { <<"WCAS", " ", "1", "2", " ", "1", "0", "0", "%">>,
      <<"Freshman", " ", "3", " ", "2", "5", ".", "0", "%">>,
      <<"Freshman", " ", "9", " ", "1", "%">>,
      <<"Other requirement", " ", "4", " ", "5", "%">>,
      <<"Medill", " ", "Music">>,
      <<"2", " ", "4", " ", "3", "3", "%">>,
      <<"6-Extremely interested", " ", "1", " ", "5", "%">>,
      <<"4 - 7", " ", "5", " ", "5", "0", "%">>,
      <<"WCAS", " ", LongCount, " ", "5", "%">>,
      <<"4 - 7", " ", LongCount, " ", "5", "%">>,
      <<DemographicsAnchor>>, <<TimeAnchor>>, <<EssayAnchors[1]>>, <<EssayAnchors[2]>> }

TableTexts ==
    {JoinSpace(rows) : rows \in UNION {[1..n -> TableRows] : n \in 0..MaxTableRows}}

StageTexts == AudienceTexts \cup CommentTexts \cup TableTexts

InitStages ==
    /\ parsed = <<>>
    /\ OuterIdle
    /\ config = DefaultConfig
    /\ arg \in StageTexts
    /\ ret = NotCalled
    /\ LoopIdle
    /\ ParseIdle

CallExtractAudience ==
    /\ ret = NotCalled
    /\ ret' = [fn |-> "audience", out |-> ExtractAudienceAndResponseMetadata(arg)]
    /\ UNCHANGED <<outerVars, parsed, config, arg, loopVars, parseVars>>

CallExtractComments ==
    /\ ret = NotCalled
    /\ ret' = [fn |-> "comments", out |-> ExtractComments(arg)]
    /\ UNCHANGED <<outerVars, parsed, config, arg, loopVars, parseVars>>

CallExtractDemographics ==
    /\ ret = NotCalled
    /\ ret' = [fn |-> "demographics", out |-> ExtractDemographicDistributions(arg)]
    /\ UNCHANGED <<outerVars, parsed, config, arg, loopVars, parseVars>>

CallExtractTimeSurvey ==
    /\ ret = NotCalled
    /\ ret' = [fn |-> "time", out |-> ExtractTimeSurvey(arg)]
    /\ UNCHANGED <<outerVars, parsed, config, arg, loopVars, parseVars>>

NextStages ==
    \/ CallExtractAudience \/ CallExtractComments
    \/ CallExtractDemographics \/ CallExtractTimeSurvey

SpecStages == InitStages /\ [][NextStages]_vars

(***************************************************************************)
(* Properties of the extractions (SpecStages)                              *)
(***************************************************************************)
AudienceReturned == ret # NotCalled /\ ret.fn = "audience"

\* the lines of the text that are a header of the given words
HeaderLinesOf(t, W1, W2) ==
    {i \in DOMAIN SplitLines(t) : IsHeaderLine(Strip(SplitLines(t)[i]), W1, W2)}

\* the later of the two header lines (the last line of each kind counts)
LaterHeader(t) ==
    Max({Max(HeaderLinesOf(t, CourseWords, AudienceWords)),
         Max(HeaderLinesOf(t, ResponseWords, ReceivedWords))})

BothHeaders(t) ==
    /\ HeaderLinesOf(t, CourseWords, AudienceWords) # {}
    /\ HeaderLinesOf(t, ResponseWords, ReceivedWords) # {}

\* the bare-integer lines among the lines from..to of the text
IntegerLines(t, from, to) ==
    {i \in from..Min({to, Len(SplitLines(t))}) :
        /\ Strip(SplitLines(t)[i]) # <<>>
        /\ \A k \in DOMAIN Strip(SplitLines(t)[i]) : Strip(SplitLines(t)[i])[k] \in Digit}

\* the bare-integer lines the scan collects: those of the ten lines after
\* the later header
Collected(t) == IntegerLines(t, LaterHeader(t) + 1, LaterHeader(t) + SearchWindow)

IntegerAt(t, i) == ToInt(Strip(SplitLines(t)[i]))

\* C13: with both headers found and two bare-integer lines collected, the
\* first integer goes to the field whose header line comes first and the
\* second integer to the other field.
C13_FirstIntegerToEarlierHeader ==
    (AudienceReturned /\ BothHeaders(arg) /\ Cardinality(Collected(arg)) >= 2) =>
        LET n1 == Min(Collected(arg))
            n2 == Min(Collected(arg) \ {n1})
        IN IF Max(HeaderLinesOf(arg, CourseWords, AudienceWords))
                < Max(HeaderLinesOf(arg, ResponseWords, ReceivedWords))
           THEN /\ ret.out.audience_size = IntegerAt(arg, n1)
                /\ ret.out.response_count = IntegerAt(arg, n2)
           ELSE /\ ret.out.response_count = IntegerAt(arg, n1)
                /\ ret.out.audience_size = IntegerAt(arg, n2)

\* C13 witness: the response header first, then the audience header, then
\* 217 and 183
C13_Witness ==
    /\ AudienceReturned
    /\ arg = JoinLines(<<ResponseHeader, AudienceHeader, <<"2", "1", "7">>,
                         <<" ", "1", "8", "3", " ">> >>)
    /\ ret.out.response_count = 217 /\ ret.out.audience_size = 183

BothSet(out) == out.audience_size # None /\ out.response_count # None
BothUnset(out) == out.audience_size = None /\ out.response_count = None

CommentsReturned == "fn" \in DOMAIN ret /\ ret.fn = "comments"

HasCommentStart(t) == \E k \in DOMAIN t : t[k] = CommentStart

\* where the span of the comments ends: before the first demographics
\* heading after the instruction sentence, or at the end of the text
SpanEnd(t, start) ==
    IF \E k \in (start + 1)..Len(t) : t[k] = DemographicsAnchor
    THEN Min({k \in (start + 1)..Len(t) : t[k] = DemographicsAnchor}) - 1
    ELSE Len(t)

FirstStart(t) == Min({k \in DOMAIN t : t[k] = CommentStart})

\* the non-empty trimmed lines of the comment span
LinesOfSpan(t) == SpanLines(SubSeq(t, FirstStart(t) + 1, SpanEnd(t, FirstStart(t))))

UpperInitial(line) == line[1] \in UpperWords

\* the lines at which a comment starts: the first line, and every later line
\* whose first character is an uppercase letter
Breaks(L) == {i \in DOMAIN L : i = 1 \/ UpperInitial(L[i])}

\* the last line of the comment that starts at line b
LastOf(L, b) ==
    IF \E c \in Breaks(L) : c > b THEN Min({c \in Breaks(L) : c > b}) - 1 ELSE Len(L)

Segmented(L, out) ==
    /\ Len(out) = Cardinality(Breaks(L))
    /\ \A b \in Breaks(L) :
         out[Cardinality({c \in Breaks(L) : c <= b})] = JoinSpace(SubSeq(L, b, LastOf(L, b)))
    /\ Len(out) = Cardinality({i \in DOMAIN L : UpperInitial(L[i])})
                    + (IF L # <<>> /\ ~UpperInitial(L[1]) THEN 1 ELSE 0)

\* C15: the comments are the non-empty trimmed lines of the comment span cut
\* before every uppercase-initial line but the first: each comment is its
\* lines joined by single spaces, the comments are in document order, and
\* their number is the number of uppercase-initial lines, plus one when the
\* first line is not uppercase-initial.
C15_CommentsBreakAtUppercaseLines ==
    (CommentsReturned /\ HasCommentStart(arg)) => Segmented(LinesOfSpan(arg), ret.out)

\* a first line that is not uppercase-initial, a comment of two lines, and
\* two comments
C15_Witness ==
    /\ CommentsReturned /\ HasCommentStart(arg)
    /\ Len(ret.out) = 2
    /\ Len(LinesOfSpan(arg)) = 3
    /\ ~UpperInitial(LinesOfSpan(arg)[1])
    /\ ~UpperInitial(LinesOfSpan(arg)[3])


(***************************************************************************)
(* The extractions of comments, demographics and time survey               *)
(***************************************************************************)
ExtractionReturned(f) == "fn" \in DOMAIN ret /\ ret.fn = f

Holds(t, tok) == \E k \in DOMAIN t : t[k] = tok

FirstOf(t, tok) == Min({k \in DOMAIN t : t[k] = tok})

ExtractionRaised == (ExtractionReturned("demographics") \/ ExtractionReturned("time")) /\ IsError(ret.out)

\* without its start anchor an extraction returns an empty result
AbsentAnchorGivesEmpty ==
    /\ (ExtractionReturned("comments") /\ ~Holds(arg, CommentStart)) => ret.out = <<>>
    /\ (ExtractionReturned("demographics") /\ ~Holds(arg, DemographicsAnchor)) => ret.out = <<>>
    /\ (ExtractionReturned("time") /\ ~Holds(arg, TimeAnchor)) => ret.out = <<>>

\* without an end anchor the span is the rest of the text
MissingEndRunsToEnd ==
    /\ (ExtractionReturned("comments") /\ Holds(arg, CommentStart)
          /\ ~Holds(SubSeq(arg, FirstOf(arg, CommentStart) + 1, Len(arg)), DemographicsAnchor))
         => ret.out = CommentLines(SubSeq(arg, FirstOf(arg, CommentStart) + 1, Len(arg)))
    /\ (ExtractionReturned("time") /\ Holds(arg, TimeAnchor)
          /\ ~Holds(arg, EssayAnchors[1]) /\ ~Holds(arg, EssayAnchors[2]))
         => ret.out = TimeSurveyOf(SubSeq(arg, FirstOf(arg, TimeAnchor), Len(arg)))

\* C16: the extractions of comments, demographics and time survey never
\* raise; without its start anchor an extraction returns an empty result, and
\* without an end anchor its span runs to the end of the text.
C16_ExtractionsNeverRaise ==
    ~ExtractionRaised /\ AbsentAnchorGivesEmpty /\ MissingEndRunsToEnd


(***************************************************************************)
(* The three extraction flags                                              *)
(***************************************************************************)
DemographicKeys == {SchoolQuestion, ClassQuestion, ReasonQuestion, InterestQuestion}

\* the entries of a dictionary under the given keys
Part(d, keys) == [k \in DOMAIN d \cap keys |-> d[k]]

\* what the stages before the comments leave in the course info
CourseInfoOf(c, tm, a) ==
    [c EXCEPT !.quarter = tm.quarter, !.year = tm.year,
              !.audience_size = a.audience_size,
              !.response_count = a.response_count]

\* what the rating stage stores: its dictionary, or nothing when it raised
RatingsOf(r) == IF r.kind = "ok" THEN r.results ELSE <<>>

\* C17: each of extract_comments, extract_demographics and
\* extract_time_survey decides its own part of a returned result and no
\* other: with the flag false the comment list is empty, or no demographic
\* category is a key of survey_responses, or the time-survey question is not
\* a key; with the flag true the part is what the extraction returns for the
\* text; the course info and the rating entries depend on none of the three.
C17_FlagsAreIndependent ==
    pc = "done" =>
        /\ ret.comments =
              (IF config.extract_comments THEN ExtractComments(raw_text) ELSE <<>>)
        /\ Part(ret.survey_responses, DemographicKeys) =
              (IF config.extract_demographics
               THEN ExtractDemographicDistributions(cleaned_text) ELSE <<>>)
        /\ Part(ret.survey_responses, {TimeQuestion}) =
              (IF config.extract_time_survey
               THEN ExtractTimeSurvey(cleaned_text) ELSE <<>>)
        /\ Part(ret.survey_responses, RatingKeys) =
              RatingsOf(ExtractSurveyRatingsViaOcr(pdf, config.validate_ocr_totals))
        /\ DOMAIN ret.survey_responses \subseteq
              DemographicKeys \cup {TimeQuestion} \cup RatingKeys
        /\ ret.course_info =
              CourseInfoOf(ExtractCourseInfo(cleaned_text), ExtractTermInfo(cleaned_text),
                           ExtractAudienceAndResponseMetadata(raw_text))

\* a result returned with extract_demographics false and the two other flags
\* true, for a file that has comments, demographic tables, a time survey and
\* ratings
C17_Witness ==
    /\ pc = "done"
    /\ ~config.extract_demographics /\ config.extract_comments
    /\ config.extract_time_survey
    /\ ExtractDemographicDistributions(cleaned_text) # <<>>
    /\ DOMAIN ret.survey_responses \cap DemographicKeys = {}
    /\ TimeQuestion \in DOMAIN ret.survey_responses
    /\ ret.comments # <<>>
    /\ DOMAIN ret.survey_responses \cap RatingKeys # {}


(***************************************************************************)
(* Demographic distributions                                               *)
(***************************************************************************)
\* the text from the anchor onward
FromAnchor(t) == SubSeq(t, FirstOf(t, DemographicsAnchor), Len(t))

\* the count captured by the first match of the pattern of label
Captured(t, label) == ToInt(CountText(t, Min(ItemHits(t, label))))

\* d maps the matched labels, and no other key, to their captured counts
LabelsCounted(d, labels, t) ==
    /\ DOMAIN d \subseteq {labels[n] : n \in DOMAIN labels}
    /\ \A n \in DOMAIN labels :
         IF ItemHits(t, labels[n]) = {} THEN labels[n] \notin DOMAIN d
         ELSE labels[n] \in DOMAIN d /\ d[labels[n]] = Captured(t, labels[n])

\* d maps the rating numbers of the matched prior-interest labels, and no
\* other key, to their captured counts
RatingsCounted(d, t) ==
    /\ DOMAIN d \subseteq 1..Len(PriorInterest)
    /\ \A n \in DOMAIN PriorInterest :
         IF ItemHits(t, PriorInterest[n]) = {} THEN n \notin DOMAIN d
         ELSE n \in DOMAIN d /\ d[n] = Captured(t, PriorInterest[n])

DemographicsReturned ==
    /\ ExtractionReturned("demographics") /\ ~IsError(ret.out)
    /\ Holds(arg, DemographicsAnchor)

\* C18: with the DEMOGRAPHICS anchor in the text, the dictionary returned
\* has exactly the four category keys; each category holds, for every label
\* of its own set whose pattern matches in the text from the anchor onward,
\* the count the first match captured, and no key for any other label; the
\* prior-interest category is keyed by the rating numbers 1 to 6.
C18_CategoriesHoldCapturedCounts ==
    DemographicsReturned =>
        /\ DOMAIN ret.out = DemographicKeys
        /\ LabelsCounted(ret.out[SchoolQuestion], Departments, FromAnchor(arg))
        /\ LabelsCounted(ret.out[ClassQuestion], ClassYear, FromAnchor(arg))
        /\ LabelsCounted(ret.out[ReasonQuestion], DistributionRequirement, FromAnchor(arg))
        /\ RatingsCounted(ret.out[InterestQuestion], FromAnchor(arg))

\* a class-year row before the anchor only, which is left out, and a row
\* after the anchor for the prior-interest rating 6
C18_Witness ==
    /\ DemographicsReturned
    /\ ItemHits(arg, "Freshman") # {}
    /\ DOMAIN ret.out[ClassQuestion] = {}
    /\ DOMAIN ret.out[InterestQuestion] = {6}
    /\ ret.out[InterestQuestion][6] = 1


(***************************************************************************)
(* Rating distributions                                                    *)
(***************************************************************************)
RatingReturned == "dist" \in DOMAIN ret /\ ret.kind = "ok"

\* C19: a distribution returned by the rating extraction, from the primary
\* pattern or from either alternative, with validation on or off, is a
\* mapping from ratings in 1..6 to non-negative integers: one count for each
\* rating it holds.
C19_RatingsWithinOneToSix ==
    RatingReturned =>
        /\ DOMAIN ret.dist \subseteq 1..6
        /\ \A r \in DOMAIN ret.dist : ret.dist[r] \in Nat
        /\ Cardinality(DOMAIN ret.dist) <= 6

\* a block that prints a rating twice and a digit outside 1..6 with a count:
\* one entry is returned for the rating and none for the digit
C19_Witness ==
    /\ RatingReturned /\ ret.via = "primary"
    /\ \E k \in DOMAIN arg : arg[k] = "7" /\ At(arg, k + 1) = " " /\ At(arg, k + 2) = "("
    /\ Cardinality({k \in DOMAIN arg : arg[k] = "1" /\ At(arg, k + 1) = " " /\ At(arg, k + 2) = "("}) >= 2
    /\ DOMAIN ret.dist = {1}


(***************************************************************************)
(* One parser instance, several files                                      *)
(* parse_ctec is called again on the same instance.  A call starts with    *)
(* the instance as the calls before left it and with locals of its own.    *)
(***************************************************************************)
MaxParses == 3

\* a file with comments and tables; a file of another course without them,
\* whose ratings fail validation; a file that is missing; a file whose count
\* does not convert
ReusePdfs ==
    { GoodPdf,
      Pdf(<<FirstPage(HeaderA(<<"AFST", "_", "101-7", "_", "20">>, <<":", " ", "Intro">>),
                      <<TermHeader("Fall", <<"2", "0", "2", "2">>)>>),
            <<"Report">>, <<>>>>,
          3,
          << Question(1, ValidBody) \o Question(2, MismatchBody) \o Question(3, ValidBody),
             Question(4, ValidBody) \o Question(5, ValidBody) >>),
      [GoodPdf EXCEPT !.exists = FALSE],
      [GoodPdf EXCEPT !.pages[3] = LongCountPage("4 - 7")] }

InitReuse ==
    /\ parsed = <<>>
    /\ OuterIdle
    /\ config \in Configs
    /\ pdf \in ReusePdfs
    /\ pc = "text" /\ trace = <<>>
    /\ raw_text = <<>> /\ cleaned_text = <<>>
    /\ course_info = NotCalled /\ term = NotCalled
    /\ comments = <<>> /\ survey_responses = <<>>
    /\ arg = <<>> /\ ret = NotCalled
    /\ LoopIdle

\* Variant: survey_responses is kept from one call to the next.
ParseNext_KeepsResponses ==
    /\ pc \in {"done", "raised"}
    /\ Len(parsed) < MaxParses - 1
    /\ parsed' = Append(parsed, [pdf |-> pdf, config |-> config, ret |-> ret])
    /\ pdf' \in ReusePdfs
    /\ pc' = "text" /\ trace' = <<>> /\ ret' = NotCalled
    /\ raw_text' = <<>> /\ cleaned_text' = <<>>
    /\ course_info' = NotCalled /\ term' = NotCalled
    /\ comments' = <<>>
    /\ UNCHANGED <<outerVars, config, arg, loopVars, survey_responses>>

\* the call has returned or raised; parse_ctec is called with another path:
\* raw_text, cleaned_text, course_info, quarter and year are unbound again,
\* comments = [] and survey_responses = {}
ParseNext ==
    /\ pc \in {"done", "raised"}
    /\ Len(parsed) < MaxParses - 1
    /\ parsed' = Append(parsed, [pdf |-> pdf, config |-> config, ret |-> ret])
    /\ pdf' \in ReusePdfs
    /\ pc' = "text" /\ trace' = <<>> /\ ret' = NotCalled
    /\ raw_text' = <<>> /\ cleaned_text' = <<>>
    /\ course_info' = NotCalled /\ term' = NotCalled
    /\ comments' = <<>> /\ survey_responses' = <<>>
    /\ UNCHANGED <<outerVars, config, arg, loopVars>>

NextReuse == Next \/ ParseNext

SpecReuse == InitReuse /\ [][NextReuse]_vars

Finished == pc \in {"done", "raised"}

\* the locals of a call that has not run a stage yet
FreshLocals ==
    /\ raw_text = <<>> /\ cleaned_text = <<>>
    /\ course_info = NotCalled /\ term = NotCalled
    /\ comments = <<>> /\ survey_responses = <<>>
    /\ ret = NotCalled

MaxPaths == 3

\* the files at the paths: a good file, a file of another course whose
\* ratings fail validation, a missing file, a file whose count does not
\* convert
Paths == {"a.pdf", "b.pdf", "c.pdf", "d.pdf"}

FileAt(path) ==
    CASE path = "a.pdf" -> GoodPdf
      [] path = "b.pdf" -> [GoodPdf EXCEPT !.exists = FALSE]
      [] path = "c.pdf" ->
           Pdf(<<FirstPage(HeaderA(<<"AFST", "_", "101-7", "_", "20">>, <<":", " ", "Intro">>),
                           <<TermHeader("Fall", <<"2", "0", "2", "2">>)>>),
                 <<"Report">>, <<>>>>,
               3,
               << Question(1, ValidBody) \o Question(2, MismatchBody) \o Question(3, ValidBody),
                  Question(4, ValidBody) \o Question(5, ValidBody) >>)
      [] path = "d.pdf" -> [GoodPdf EXCEPT !.pages[3] = LongCountPage("4 - 7")]

PathLists == UNION {[1..n -> Paths] : n \in 0..MaxPaths}

InitMulti ==
    /\ parsed = <<>>
    /\ config \in {DefaultConfig, [DefaultConfig EXCEPT !.continue_on_ocr_errors = TRUE]}
    /\ pdf_paths \in PathLists
    /\ continue_on_error \in BOOLEAN
    /\ path_index = 1
    /\ multi_results = [successful |-> <<>>, failed |-> <<>>]
    /\ multi_ret = NotCalled
    /\ ServiceIdle /\ BatchIdle
    /\ arg = <<>> /\ ret = NotCalled
    /\ LoopIdle
    /\ ParseIdle

MultiRunning == multi_ret = NotCalled /\ path_index \in DOMAIN pdf_paths

\* for pdf_path in pdf_paths: ctec_data = self.parse_ctec(pdf_path)
MultiCall ==
    /\ MultiRunning /\ pc = "idle"
    /\ pdf' = FileAt(pdf_paths[path_index])
    /\ pc' = "text" /\ trace' = <<>> /\ ret' = NotCalled
    /\ raw_text' = <<>> /\ cleaned_text' = <<>>
    /\ course_info' = NotCalled /\ term' = NotCalled
    /\ comments' = <<>> /\ survey_responses' = <<>>
    /\ UNCHANGED <<multiVars, serviceVars, batchVars, parsed, config, arg, loopVars>>

\* results[key][pdf_path] = value
Recorded(r, key, path, value) ==
    [r EXCEPT ![key] = DictUpdate(r[key], [p \in {path} |-> value])]

\* Variant: a failure ends the loop whatever continue_on_error is.
MultiRecord_StopsAtFailure ==
    /\ MultiRunning /\ pc \in {"done", "raised"}
    /\ IF pc = "done"
       THEN /\ multi_results' =
                 Recorded(multi_results, "successful", pdf_paths[path_index], ret)
            /\ path_index' = path_index + 1 /\ multi_ret' = multi_ret
       ELSE /\ multi_results' =
                 Recorded(multi_results, "failed", pdf_paths[path_index], ret.msg)
            /\ path_index' = path_index /\ multi_ret' = [kind |-> "raised", msg |-> ret.msg]
    /\ pc' = "idle"
    /\ UNCHANGED <<pdf_paths, continue_on_error, serviceVars, batchVars, parsed, config,
                   arg, ret, loopVars,
                   pdf, trace, raw_text, cleaned_text, course_info, term,
                   comments, survey_responses>>

\* results['successful'][pdf_path] = ctec_data, or
\* except Exception as e: results['failed'][pdf_path] = str(e);
\*     if not continue_on_error: raise
MultiRecord ==
    /\ MultiRunning /\ pc \in {"done", "raised"}
    /\ IF pc = "done"
       THEN /\ multi_results' =
                 Recorded(multi_results, "successful", pdf_paths[path_index], ret)
            /\ path_index' = path_index + 1 /\ multi_ret' = multi_ret
       ELSE /\ multi_results' =
                 Recorded(multi_results, "failed", pdf_paths[path_index], ret.msg)
            /\ IF continue_on_error
               THEN path_index' = path_index + 1 /\ multi_ret' = multi_ret
               ELSE path_index' = path_index
                    /\ multi_ret' = [kind |-> "raised", msg |-> ret.msg]
    /\ pc' = "idle"
    /\ UNCHANGED <<pdf_paths, continue_on_error, serviceVars, batchVars, parsed, config,
                   arg, ret, loopVars,
                   pdf, trace, raw_text, cleaned_text, course_info, term,
                   comments, survey_responses>>

\* return results
MultiReturn ==
    /\ multi_ret = NotCalled /\ path_index = Len(pdf_paths) + 1 /\ pc = "idle"
    /\ multi_ret' = [kind |-> "ok", msg |-> ""]
    /\ UNCHANGED <<pdf_paths, continue_on_error, path_index, multi_results,
                   serviceVars, batchVars, parsed, config, arg, ret, loopVars,
                   parseVars>>

NextMulti == MultiCall \/ Next \/ MultiRecord \/ MultiReturn

SpecMulti == InitMulti /\ [][NextMulti]_vars

\* the paths the loop has finished with
PathsDone == {pdf_paths[n] : n \in 1..(path_index - 1)}

\* parse_ctec fails for the file at the path
FailsToParse(path) ==
    \/ ~FileAt(path).exists
    \/ path = "d.pdf" /\ config.extract_time_survey
    \/ path = "c.pdf" /\ config.validate_ocr_totals /\ ~config.continue_on_ocr_errors

\* C21: with continue_on_error true parse_multiple_ctecs never raises; the
\* paths are taken in the order of the list, whether or not an earlier one
\* failed; and when it returns every path of the list is a key of exactly
\* one of results['successful'], with the result of its parse, and
\* results['failed'], with the message of its error.
C21_EveryPathRecordedOnce ==
    continue_on_error =>
        /\ multi_ret.kind # "raised"
        /\ pc = "idle" =>
             DOMAIN multi_results.successful \cup DOMAIN multi_results.failed = PathsDone
        /\ multi_ret.kind = "ok" =>
             /\ path_index = Len(pdf_paths) + 1
             /\ DOMAIN multi_results.successful \cap DOMAIN multi_results.failed = {}
             /\ \A p \in DOMAIN multi_results.successful :
                   ~FailsToParse(p) /\ multi_results.successful[p].kind = "ok"
             /\ \A p \in DOMAIN multi_results.failed :
                   FailsToParse(p) /\ multi_results.failed[p] # ""

\* a list whose first file fails and whose last file is parsed, returned
C21_Witness ==
    /\ continue_on_error /\ multi_ret.kind = "ok"
    /\ Len(pdf_paths) = 3
    /\ pdf_paths[1] \in DOMAIN multi_results.failed
    /\ pdf_paths[2] \in DOMAIN multi_results.failed
    /\ pdf_paths[3] \in DOMAIN multi_results.successful
    /\ multi_results.successful[pdf_paths[3]].course_info.code # <<>>

(***************************************************************************)
(* The upload service (app/services/ctec_service.py) and the database      *)
(* functions it calls (app/db).  A CTECData is given by its fields; the    *)
(* tables are sets of rows, each with the id the database gave it.         *)
(***************************************************************************)
Q1 == "Provide an overall rating of the instruction"

\* the documents the parser hands over: DocA1 and DocA2 are two reports of
\* one offering, DocB is another instructor's offering of the same course
DocA1 ==
    [course_info |-> [code |-> "CS_101", title |-> "Intro", section |-> "20",
                      instructor |-> "Ann", quarter |-> "Fall", year |-> 2023,
                      audience_size |-> 10, response_count |-> 3],
     comments |-> <<"Great", "Great", "Hard">>,
     survey_responses |-> [q \in {Q1} |-> [k \in {1, 6} |-> IF k = 1 THEN 2 ELSE 1]]]

DocA2 ==
    [course_info |-> [DocA1.course_info EXCEPT !.audience_size = 12],
     comments |-> <<"Fine">>,
     survey_responses |-> <<>>]

DocB ==
    [course_info |-> [DocA1.course_info EXCEPT !.instructor = "Bob", !.section = ""],
     comments |-> <<>>,
     survey_responses |-> [q \in {Q1} |-> [k \in {2} |-> 3]]]

Docs == {DocA1, DocA2, DocB}

\* hashlib.sha256(comment.encode('utf-8')).hexdigest()
Sha256(comment) ==
    CASE comment = "Great" ->
           "c8cc1c7bb662fcb447f52c7e406ded651a1ae0794d62ca630c2ca24f46d01f4a"
      [] comment = "Hard" ->
           "9e73f8fa9cb76c441b3118628a15b2bdf4116324954957961bacc171fbead4a3"
      [] comment = "Fine" ->
           "fa67303aecdafbdddabe4fb62751c7cc1c45876b485191d65aa893c7f1eba737"

\* str(response_key) of a rating value
RatingLabels == <<"1", "2", "3", "4", "5", "6">>

\* the rows of survey_questions and survey_question_options that
\* setup_survey_questions.py creates for Q1
SurveyQuestions == {[id |-> 101, question |-> Q1]}

SurveyQuestionOptions ==
    {[id |-> 110 + n, survey_question_id |-> 101, label |-> RatingLabels[n]] : n \in 1..6}

EmptyTables ==
    [courses |-> {}, instructors |-> {}, course_offerings |-> {},
     comments |-> {}, ratings |-> {}, ratings_distribution |-> {}]

\* the columns of on_conflict: the database keeps them unique
OfferingKey == {"course_id", "instructor_id", "quarter", "year", "section"}
CommentKey == {"course_offering_id", "content_hash"}
RatingKey == {"course_offering_id", "survey_question_id"}
DistributionKey == {"rating_id", "option_id"}

KeyOf(row, cols) == [c \in cols |-> row[c]]

\* rows[n] with the id the database gives it
WithIds(rows, first) == {rows[n] @@ [id |-> first + n - 1] : n \in DOMAIN rows}

\* insert(batch): one statement; a row whose key is already there, or is
\* twice in the batch, makes the whole statement fail
Violates(stored, rows, cols) ==
    \/ \E n \in DOMAIN rows : \E r \in stored : KeyOf(r, cols) = KeyOf(rows[n], cols)
    \/ \E n, k \in DOMAIN rows : n # k /\ KeyOf(rows[n], cols) = KeyOf(rows[k], cols)

\* one upload_ctec_data in progress
IdleUpload ==
    [pc |-> "idle", ctec_data |-> NotCalled,
     course_id |-> None, instructor_id |-> None, course_offering_id |-> None,
     ratings |-> {}, clear_results |-> NotCalled,
     comment_data |-> <<>>, comments_inserted |-> 0,
     rating_data |-> <<>>, ratings_inserted |-> 0,
     distribution_data |-> <<>>,
     log |-> <<>>, ret |-> NotCalled]

\* upload_ctec_data(ctec_data, file_identifier)
Called(ctec_data) ==
    [IdleUpload EXCEPT !.pc = "get_courses_lookup", !.ctec_data = ctec_data]

Uploads == {1, 2}

\* a call of the database fails or not; one call at most fails in a run
Calls == IF fault THEN {TRUE} ELSE BOOLEAN

\* the function `step` has returned, reporting errors or not
Logged(up, step, errors) ==
    [up EXCEPT !.log = Append(@, [step |-> step, errors |-> errors])]

\* return {'error': ...}
Failed(up, msg) == [up EXCEPT !.pc = "done", !.ret = [error |-> msg]]

\* return {'uploaded': True, ...}
Uploaded(up) ==
    [up EXCEPT !.pc = "done",
               !.ret = [uploaded |-> TRUE,
                        course_offering_id |-> up.course_offering_id,
                        comments_uploaded |-> up.comments_inserted,
                        ratings_uploaded |-> up.ratings_inserted,
                        snapshot_cleared |->
                            [comments_deleted |-> up.clear_results.comments_deleted,
                             ratings_deleted |-> up.clear_results.ratings_deleted],
                        errors |-> <<>>]]

\* Step 6 when there are survey responses, else the return
AfterComments(up) ==
    IF up.ctec_data.survey_responses # <<>>
    THEN [up EXCEPT !.pc = "get_survey_questions_lookup"]
    ELSE Uploaded(up)

\* Step 5 when there are comments, else Step 6
AfterClear(up) ==
    IF up.ctec_data.comments # <<>>
    THEN [up EXCEPT !.pc = "insert_comments"]
    ELSE AfterComments(up)

\* Step 1: course_lookup = get_courses_lookup();
\* course_id = course_lookup.get(code).  A failed read gives {}.
GetCoursesLookup(u) ==
    /\ upload[u].pc = "get_courses_lookup"
    /\ \E ok \in Calls :
         \E found \in {IF ok THEN {r \in tables.courses :
                                     r.code = upload[u].ctec_data.course_info.code}
                             ELSE {}} :
         \E up \in {Logged(upload[u], "get_courses_lookup", FALSE)} :
            /\ upload' = [upload EXCEPT ![u] =
                  IF found = {}
                  THEN [up EXCEPT !.pc = "create_course"]
                  ELSE [up EXCEPT !.pc = "upsert_instructors",
                                  !.course_id = (CHOOSE r \in found : TRUE).id]]
            /\ fault' = (fault \/ ~ok)
    /\ UNCHANGED <<tables, next_id, batchVars, multiVars, parsed, fnVars, loopVars,
                   parseVars>>

\* created_course = create_course(code, title, None): a plain insert, which
\* the unique code of courses rejects; None when it fails
CreateCourse(u) ==
    /\ upload[u].pc = "create_course"
    /\ \E ok \in Calls :
         \E info \in {upload[u].ctec_data.course_info} :
         \E done \in {ok /\ \A r \in tables.courses : r.code # info.code} :
         \E up \in {Logged(upload[u], "create_course", ~done)} :
            /\ upload' = [upload EXCEPT ![u] =
                  IF done
                  THEN [up EXCEPT !.pc = "upsert_instructors", !.course_id = next_id]
                  ELSE Failed(up, <<"Failed to create course record for ", info.code>>)]
            /\ tables' = IF done
                         THEN [tables EXCEPT !.courses = @ \cup
                                 {[id |-> next_id, code |-> info.code, title |-> info.title]}]
                         ELSE tables
            /\ next_id' = IF done THEN next_id + 1 ELSE next_id
            /\ fault' = (fault \/ ~ok)
    /\ UNCHANGED <<batchVars, multiVars, parsed, fnVars, loopVars, parseVars>>

\* Step 2: upsert_instructors([{'name': instructor}]), on_conflict='name'
UpsertInstructors(u) ==
    /\ upload[u].pc = "upsert_instructors"
    /\ \E ok \in Calls :
         \E name \in {upload[u].ctec_data.course_info.instructor} :
         \E new \in {ok /\ \A r \in tables.instructors : r.name # name} :
         \E up \in {Logged(upload[u], "upsert_instructors", ~ok)} :
            /\ upload' = [upload EXCEPT ![u] =
                  IF ok
                  THEN [up EXCEPT !.pc = "get_instructors_lookup"]
                  ELSE Failed(up, <<"Failed to upsert instructor: ", "Batch 1 failed">>)]
            /\ tables' = IF new
                         THEN [tables EXCEPT !.instructors = @ \cup
                                 {[id |-> next_id, name |-> name]}]
                         ELSE tables
            /\ next_id' = IF new THEN next_id + 1 ELSE next_id
            /\ fault' = (fault \/ ~ok)
    /\ UNCHANGED <<batchVars, multiVars, parsed, fnVars, loopVars, parseVars>>

\* Variant: the id of some instructor, whatever the name.
GetInstructorsLookup_AnyRow(u) ==
    /\ upload[u].pc = "get_instructors_lookup"
    /\ \E ok \in Calls :
         \E name \in {upload[u].ctec_data.course_info.instructor} :
         \E found \in {IF ok THEN tables.instructors ELSE {}} :
         \E up \in {Logged(upload[u], "get_instructors_lookup", FALSE)} :
            /\ upload' = [upload EXCEPT ![u] =
                  IF found = {}
                  THEN Failed(up, <<"KeyError: ", name>>)
                  ELSE [up EXCEPT !.pc = "upsert_course_offering_returning_id",
                                  !.instructor_id = (CHOOSE r \in found : TRUE).id]]
            /\ fault' = (fault \/ ~ok)
    /\ UNCHANGED <<tables, next_id, batchVars, multiVars, parsed, fnVars, loopVars,
                   parseVars>>

\* instructor_id = get_instructors_lookup()[instructor]: a failed read gives
\* {}, and the KeyError is caught by the handler of upload_ctec_data
GetInstructorsLookup(u) ==
    /\ upload[u].pc = "get_instructors_lookup"
    /\ \E ok \in Calls :
         \E name \in {upload[u].ctec_data.course_info.instructor} :
         \E found \in {IF ok THEN {r \in tables.instructors : r.name = name} ELSE {}} :
         \E up \in {Logged(upload[u], "get_instructors_lookup", FALSE)} :
            /\ upload' = [upload EXCEPT ![u] =
                  IF found = {}
                  THEN Failed(up, <<"KeyError: ", name>>)
                  ELSE [up EXCEPT !.pc = "upsert_course_offering_returning_id",
                                  !.instructor_id = (CHOOSE r \in found : TRUE).id]]
            /\ fault' = (fault \/ ~ok)
    /\ UNCHANGED <<tables, next_id, batchVars, multiVars, parsed, fnVars, loopVars,
                   parseVars>>

\* offering_data of Step 3
OfferingData(up) ==
    [course_id |-> up.course_id, instructor_id |-> up.instructor_id,
     quarter |-> up.ctec_data.course_info.quarter,
     year |-> up.ctec_data.course_info.year,
     section |-> up.ctec_data.course_info.section,
     audience_size |-> up.ctec_data.course_info.audience_size,
     response_count |-> up.ctec_data.course_info.response_count]

\* Variant: a plain insert, which adds a row whatever is stored.
UpsertOffering_AlwaysInsert(stored, data, id) ==
    stored \cup {data @@ [id |-> id]}

\* upsert(offering_data, on_conflict=...): the row of the key is updated and
\* keeps its id, or a new row is inserted; one statement
UpsertOffering(stored, data, id) ==
    IF \E r \in stored : KeyOf(r, OfferingKey) = KeyOf(data, OfferingKey)
    THEN {IF KeyOf(r, OfferingKey) = KeyOf(data, OfferingKey)
          THEN data @@ [id |-> r.id] ELSE r : r \in stored}
    ELSE stored \cup {data @@ [id |-> id]}

\* Step 3: course_offering_id = upsert_course_offering_returning_id(offering_data),
\* response.data[0]['id'], or None when the call fails
UpsertCourseOffering(u) ==
    /\ upload[u].pc = "upsert_course_offering_returning_id"
    /\ \E ok \in Calls :
         \E data \in {OfferingData(upload[u])} :
         \E rows \in {IF ok THEN UpsertOffering(tables.course_offerings, data, next_id)
                            ELSE tables.course_offerings} :
         \E up \in {Logged(upload[u], "upsert_course_offering_returning_id", ~ok)} :
            /\ upload' = [upload EXCEPT ![u] =
                  IF ok
                  THEN [up EXCEPT !.pc = "clear_read",
                          !.course_offering_id =
                              (CHOOSE r \in rows :
                                  KeyOf(r, OfferingKey) = KeyOf(data, OfferingKey)).id]
                  ELSE Failed(up, <<"Failed to upsert course offering">>)]
            /\ tables' = [tables EXCEPT !.course_offerings = rows]
            /\ next_id' = IF Cardinality(rows) > Cardinality(tables.course_offerings)
                          THEN next_id + 1 ELSE next_id
            /\ fault' = (fault \/ ~ok)
    /\ UNCHANGED <<batchVars, multiVars, parsed, fnVars, loopVars, parseVars>>

\* the elements of a finite set, in some order
RECURSIVE SeqOf(_)
SeqOf(S) == IF S = {} THEN <<>> ELSE LET x == CHOOSE y \in S : TRUE
                                     IN  <<x>> \o SeqOf(S \ {x})

\* clear_offering_snapshot_data returns with an error: Step 4 gives up
ClearFailed(up) ==
    Failed(Logged(up, "clear_offering_snapshot_data", TRUE),
           <<"Failed to clear existing data: ", "Failed to clear snapshot data">>)

\* Step 4, clear_offering_snapshot_data: the rows are counted and the ratings
\* read, each by a getter that returns [] when its read fails
ClearRead(u) ==
    /\ upload[u].pc = "clear_read"
    /\ \E id \in {upload[u].course_offering_id} :
       \E stored \in {{r \in tables.ratings : r.course_offering_id = id}} :
       \E bad \in {"none"} \cup
                  (IF fault THEN {}
                   ELSE {"comments_before", "ratings_before", "ratings"} \cup
                        (IF stored = {} THEN {} ELSE {"distributions_before"})) :
       \E ratings \in {IF bad = "ratings" THEN {} ELSE stored} :
            /\ upload' = [upload EXCEPT ![u] =
                  [@ EXCEPT
                     !.pc = IF ratings = {} THEN "clear_delete_comments"
                            ELSE "clear_delete_distributions",
                     !.ratings = ratings,
                     !.clear_results =
                        [comments_deleted |->
                            IF bad = "comments_before" THEN 0
                            ELSE Cardinality({r \in tables.comments :
                                                r.course_offering_id = id}),
                         ratings_deleted |->
                            IF bad = "ratings_before" THEN 0 ELSE Cardinality(stored),
                         distributions_deleted |->
                            IF bad = "distributions_before" THEN 0
                            ELSE Cardinality({d \in tables.ratings_distribution :
                                      \E r \in ratings : d.rating_id = r.id}),
                         errors |-> <<>>]]]
            /\ fault' = (fault \/ bad # "none")
    /\ UNCHANGED <<tables, next_id, batchVars, multiVars, parsed, fnVars, loopVars,
                   parseVars>>

\* for rating in ratings: delete the rows of ratings_distribution of the rating
ClearDeleteDistributions(u) ==
    /\ upload[u].pc = "clear_delete_distributions"
    /\ \E ok \in Calls :
            /\ upload' = [upload EXCEPT ![u] =
                  IF ok THEN [@ EXCEPT !.pc = "clear_delete_comments"]
                  ELSE ClearFailed(@)]
            /\ tables' = IF ok
                         THEN [tables EXCEPT !.ratings_distribution =
                                 {d \in @ : \A r \in upload[u].ratings : d.rating_id # r.id}]
                         ELSE tables
            /\ fault' = (fault \/ ~ok)
    /\ UNCHANGED <<next_id, batchVars, multiVars, parsed, fnVars, loopVars, parseVars>>

\* delete the comments of the offering
ClearDeleteComments(u) ==
    /\ upload[u].pc = "clear_delete_comments"
    /\ \E ok \in Calls :
            /\ upload' = [upload EXCEPT ![u] =
                  IF ok THEN [@ EXCEPT !.pc = "clear_delete_ratings"]
                  ELSE ClearFailed(@)]
            /\ tables' = IF ok
                         THEN [tables EXCEPT !.comments =
                                 {r \in @ : r.course_offering_id #
                                            upload[u].course_offering_id}]
                         ELSE tables
            /\ fault' = (fault \/ ~ok)
    /\ UNCHANGED <<next_id, batchVars, multiVars, parsed, fnVars, loopVars, parseVars>>

\* the ratings of the offering, which are deleted, and the rows of
\* ratings_distribution that go with them (cascade)
WithoutRatings(t, id) ==
    [t EXCEPT !.ratings = {r \in @ : r.course_offering_id # id},
              !.ratings_distribution =
                  {d \in @ : \A r \in t.ratings :
                                r.course_offering_id = id => d.rating_id # r.id}]

\* delete the ratings of the offering; clear_offering_snapshot_data returns,
\* and Step 4 goes on when it reports no error
ClearDeleteRatings(u) ==
    /\ upload[u].pc = "clear_delete_ratings"
    /\ \E ok \in Calls :
            /\ upload' = [upload EXCEPT ![u] =
                  IF ok THEN AfterClear(Logged(@, "clear_offering_snapshot_data", FALSE))
                  ELSE ClearFailed(@)]
            /\ tables' = IF ok THEN WithoutRatings(tables, upload[u].course_offering_id)
                         ELSE tables
            /\ fault' = (fault \/ ~ok)
    /\ UNCHANGED <<next_id, batchVars, multiVars, parsed, fnVars, loopVars, parseVars>>

\* the positions of the comments whose hash no earlier comment has
RECURSIVE FirstSeen(_, _, _)
FirstSeen(texts, n, seen) ==
    IF n > Len(texts) THEN <<>>
    ELSE IF Sha256(texts[n]) \in seen THEN FirstSeen(texts, n + 1, seen)
    ELSE <<n>> \o FirstSeen(texts, n + 1, seen \cup {Sha256(texts[n])})

\* Variant: every comment gives a record, whatever its hash.
UniqueComments_Every(texts, course_offering_id) ==
    [n \in DOMAIN texts |->
        [course_offering_id |-> course_offering_id,
         content |-> texts[n],
         content_hash |-> Sha256(texts[n])]]

\* unique_comments[content_hash] = {...} for every comment of texts, then
\* list(unique_comments.values()): one record for each hash, in the order
\* of its first comment, with the content of its last comment
UniqueComments(texts, course_offering_id) ==
    LET first == FirstSeen(texts, 1, {})
    IN  [k \in DOMAIN first |->
            [course_offering_id |-> course_offering_id,
             content |-> texts[Max({n \in DOMAIN texts :
                              Sha256(texts[n]) = Sha256(texts[first[k]])})],
             content_hash |-> Sha256(texts[first[k]])]]

\* Step 5: insert_comments(comment_data), one batch; an error ends the upload
InsertComments(u) ==
    /\ upload[u].pc = "insert_comments"
    /\ \E ok \in Calls :
         \E comment_data \in {UniqueComments(upload[u].ctec_data.comments,
                                             upload[u].course_offering_id)} :
         \E done \in {ok /\ ~Violates(tables.comments, comment_data, CommentKey)} :
         \E up \in {Logged([upload[u] EXCEPT !.comment_data = comment_data],
                           "insert_comments", ~done)} :
            /\ upload' = [upload EXCEPT ![u] =
                  IF done
                  THEN AfterComments([up EXCEPT !.comments_inserted = Len(comment_data)])
                  ELSE Failed(up, <<"Failed to insert comments: ", "Comment batch 1 failed">>)]
            /\ tables' = IF done
                         THEN [tables EXCEPT !.comments = @ \cup WithIds(comment_data, next_id)]
                         ELSE tables
            /\ next_id' = IF done THEN next_id + Len(comment_data) ELSE next_id
            /\ fault' = (fault \/ ~ok)
    /\ UNCHANGED <<batchVars, multiVars, parsed, fnVars, loopVars, parseVars>>

\* Step 6, insert_survey_responses: questions_lookup =
\* get_survey_questions_lookup(), {} when the read fails; rating_data has a
\* record for every question of survey_responses that the lookup knows;
\* without rating_data it returns 0
GetSurveyQuestionsLookup(u) ==
    /\ upload[u].pc = "get_survey_questions_lookup"
    /\ \E ok \in Calls :
         \E known \in {IF ok THEN {q \in SurveyQuestions :
                                     q.question \in DOMAIN upload[u].ctec_data.survey_responses}
                             ELSE {}} :
         \E up \in {Logged(upload[u], "get_survey_questions_lookup", FALSE)} :
            /\ upload' = [upload EXCEPT ![u] =
                  IF known = {}
                  THEN Uploaded(up)
                  ELSE [up EXCEPT !.pc = "insert_ratings",
                          !.rating_data =
                              SeqOf({[course_offering_id |-> up.course_offering_id,
                                      survey_question_id |-> q.id] : q \in known})]]
            /\ fault' = (fault \/ ~ok)
    /\ UNCHANGED <<tables, next_id, batchVars, multiVars, parsed, fnVars, loopVars,
                   parseVars>>

\* rating_results = insert_ratings(rating_data), one batch; on an error
\* insert_survey_responses logs it and returns 0, and upload_ctec_data goes
\* on to its return
InsertRatings(u) ==
    /\ upload[u].pc = "insert_ratings"
    /\ \E ok \in Calls :
         \E done \in {ok /\ ~Violates(tables.ratings, upload[u].rating_data, RatingKey)} :
         \E up \in {Logged(upload[u], "insert_ratings", ~done)} :
            /\ upload' = [upload EXCEPT ![u] =
                  IF done
                  THEN [up EXCEPT !.pc = "distributions_read",
                                  !.ratings_inserted = Len(up.rating_data)]
                  ELSE Uploaded(up)]
            /\ tables' = IF done
                         THEN [tables EXCEPT !.ratings = @ \cup WithIds(upload[u].rating_data, next_id)]
                         ELSE tables
            /\ next_id' = IF done THEN next_id + Len(upload[u].rating_data) ELSE next_id
            /\ fault' = (fault \/ ~ok)
    /\ UNCHANGED <<batchVars, multiVars, parsed, fnVars, loopVars, parseVars>>

\* distribution_data of insert_rating_distributions_for_offering: for every
\* question with a rating and options, a record for every response key
\* whose str() is the label of an option
DistributionData(responses, ratings, options) ==
    {[rating_id |-> r.id, option_id |-> o.id,
      count |-> responses[q.question][k]] :
        <<q, r, o, k>> \in
          {x \in SurveyQuestions \X ratings \X options \X (1..6) :
              /\ x[1].question \in DOMAIN responses
              /\ x[2].survey_question_id = x[1].id
              /\ x[3].survey_question_id = x[1].id
              /\ x[4] \in DOMAIN responses[x[1].question]
              /\ x[3].label = RatingLabels[x[4]]}}

\* ratings = get_ratings_by_offering(id) and, for each question,
\* options = get_survey_question_options(question_id): [] when a read fails
DistributionsRead(u) ==
    /\ upload[u].pc = "distributions_read"
    /\ \E bad \in {"none"} \cup (IF fault THEN {} ELSE {"ratings", "options"}) :
       \E ratings \in {IF bad = "ratings" THEN {}
                       ELSE {r \in tables.ratings :
                               r.course_offering_id = upload[u].course_offering_id}} :
       \E options \in {IF bad = "options" \/ ratings = {} THEN {} ELSE SurveyQuestionOptions} :
       \E data \in {SeqOf(DistributionData(upload[u].ctec_data.survey_responses,
                                           ratings, options))} :
       \E up \in {Logged(upload[u], "get_ratings_by_offering", FALSE)} :
            /\ upload' = [upload EXCEPT ![u] =
                  IF data = <<>> THEN Uploaded(up)
                  ELSE [up EXCEPT !.pc = "insert_rating_distributions",
                                  !.distribution_data = data]]
            /\ fault' = (fault \/ bad # "none")
    /\ UNCHANGED <<tables, next_id, batchVars, multiVars, parsed, fnVars, loopVars,
                   parseVars>>

\* distribution_results = insert_rating_distributions(distribution_data), one
\* batch; its errors are logged and insert_survey_responses returns
InsertRatingDistributions(u) ==
    /\ upload[u].pc = "insert_rating_distributions"
    /\ \E ok \in Calls :
         \E data \in {upload[u].distribution_data} :
         \E done \in {ok /\ ~Violates(tables.ratings_distribution, data, DistributionKey)} :
            /\ upload' = [upload EXCEPT ![u] =
                  Uploaded(Logged(@, "insert_rating_distributions", ~done))]
            /\ tables' = IF done
                         THEN [tables EXCEPT !.ratings_distribution =
                                 @ \cup WithIds(data, next_id)]
                         ELSE tables
            /\ next_id' = IF done THEN next_id + Len(data) ELSE next_id
            /\ fault' = (fault \/ ~ok)
    /\ UNCHANGED <<batchVars, multiVars, parsed, fnVars, loopVars, parseVars>>

\* upload_ctec_data, one call of the database at a time
UploadStep(u) ==
    \/ GetCoursesLookup(u) \/ CreateCourse(u)
    \/ UpsertInstructors(u) \/ GetInstructorsLookup(u)
    \/ UpsertCourseOffering(u)
    \/ ClearRead(u) \/ ClearDeleteDistributions(u) \/ ClearDeleteComments(u)
    \/ ClearDeleteRatings(u)
    \/ InsertComments(u)
    \/ GetSurveyQuestionsLookup(u) \/ InsertRatings(u) \/ DistributionsRead(u)
    \/ InsertRatingDistributions(u)

(***************************************************************************)
(* parse_and_upload_ctec and process_ctec_batch.  The parse of a file is   *)
(* given by its outcome, the CTECData or the error of parse_ctec.          *)
(***************************************************************************)
MaxFiles == 2

PdfOf(doc) == [exists |-> TRUE, parse |-> [kind |-> "ok", ctec_data |-> doc]]

\* a file that parse_ctec fails on
UnparsablePdf ==
    [exists |-> TRUE, parse |-> [kind |-> "raised", msg |-> "Failed to parse"]]

\* a name of the directory with no file behind it (a dangling link, or a
\* file removed after the directory was listed)
MissingPdf == [exists |-> FALSE, parse |-> NotCalled]

PdfFiles == {PdfOf(doc) : doc \in Docs} \cup {UnparsablePdf, MissingPdf}

\* find_pdf_files(upload_dir): sorted(directory.glob("*.pdf")); the name of
\* a file is its position
PdfFileLists == UNION {[1..n -> PdfFiles] : n \in 0..MaxFiles}

NoBatch ==
    [total_files |-> 0, successful_uploads |-> 0, parse_failures |-> 0,
     upload_failures |-> 0, files_processed |-> <<>>, errors |-> <<>>]

\* pdf_files = find_pdf_files(upload_dir); without files, or when the
\* operator does not confirm, it returns at once; else results is set up
ProcessCtecBatch ==
    /\ file_index = 0 /\ batch_ret = NotCalled
    /\ \E confirmed \in (IF dry_run THEN {TRUE} ELSE BOOLEAN) :
         IF pdf_files = <<>>
         THEN /\ batch_ret' = [kind |-> "ok", value |-> "error"]
              /\ UNCHANGED <<file_index, batch_results>>
         ELSE IF ~confirmed
         THEN /\ batch_ret' = [kind |-> "ok", value |-> "cancelled"]
              /\ UNCHANGED <<file_index, batch_results>>
         ELSE /\ file_index' = 1
              /\ batch_results' = [NoBatch EXCEPT !.total_files = Len(pdf_files)]
              /\ UNCHANGED batch_ret
    /\ UNCHANGED <<pdf_files, dry_run, result, serviceVars, multiVars, parsed, fnVars,
                   loopVars, parseVars>>

\* the 'course_info' of the record of parse_and_upload_ctec
CourseInfoRecord(info) ==
    [code |-> info.code, title |-> info.title, instructor |-> info.instructor,
     quarter |-> info.quarter, year |-> info.year, section |-> info.section]

\* return {'status': 'success', 'file': ..., 'course_info': ..., 'upload_results': ...}
Success(file, ctec_data, upload_results) ==
    [status |-> "success", file |-> file,
     course_info |-> CourseInfoRecord(ctec_data.course_info),
     upload_results |-> upload_results]

\* upload_results of a dry run
DryRunResults(ctec_data) ==
    [uploaded |-> TRUE, course_offering_id |-> "dry-run-id",
     comments_uploaded |-> Len(ctec_data.comments),
     ratings_uploaded |-> Cardinality(DOMAIN ctec_data.survey_responses),
     errors |-> <<>>]

\* result = parse_and_upload_ctec(pdf_file, dry_run, parser_config), up to
\* its return or to its call of upload_ctec_data
ParseAndUploadCtec ==
    /\ batch_ret = NotCalled /\ file_index \in DOMAIN pdf_files
    /\ result = NotCalled /\ upload[1].pc = "idle"
    /\ \E file \in {pdf_files[file_index]} :
         IF ~file.exists
         THEN /\ result' = [error |-> <<"File not found: ", file_index>>]
              /\ UNCHANGED upload
         ELSE IF file.parse.kind = "raised"
         THEN /\ result' = [status |-> "error", file |-> file_index,
                            error |-> file.parse.msg]
              /\ UNCHANGED upload
         ELSE IF dry_run
         THEN /\ result' = Success(file_index, file.parse.ctec_data,
                                   DryRunResults(file.parse.ctec_data))
              /\ UNCHANGED upload
         ELSE /\ upload' = [upload EXCEPT ![1] = Called(file.parse.ctec_data)]
              /\ UNCHANGED result
    /\ UNCHANGED <<pdf_files, dry_run, file_index, batch_results, batch_ret, tables,
                   next_id, fault, multiVars, parsed, fnVars, loopVars, parseVars>>

\* upload_ctec_data has returned: parse_and_upload_ctec returns its record
ParseAndUploadReturn ==
    /\ batch_ret = NotCalled /\ file_index \in DOMAIN pdf_files
    /\ result = NotCalled /\ upload[1].pc = "done"
    /\ result' = Success(file_index, upload[1].ctec_data, upload[1].ret)
    /\ upload' = [upload EXCEPT ![1] = IdleUpload]
    /\ UNCHANGED <<pdf_files, dry_run, file_index, batch_results, batch_ret, tables,
                   next_id, fault, multiVars, parsed, fnVars, loopVars, parseVars>>

\* the counters of results after a record with a 'status'
Counted(r, res) ==
    IF res.status = "success"
    THEN IF "uploaded" \in DOMAIN res.upload_results
         THEN [r EXCEPT !.successful_uploads = @ + 1]
         ELSE [r EXCEPT !.upload_failures = @ + 1,
                        !.errors = @ \o (IF "errors" \in DOMAIN res.upload_results
                                         THEN res.upload_results.errors ELSE <<>>)]
    ELSE [r EXCEPT !.parse_failures = @ + 1,
                   !.errors = Append(@, <<res.file, res.error>>)]

\* results['files_processed'].append(result); if result['status'] == 'success': ...
\* A record without 'status' raises KeyError out of process_ctec_batch.
BatchRecord ==
    /\ batch_ret = NotCalled /\ result # NotCalled
    /\ \E r \in {[batch_results EXCEPT !.files_processed = Append(@, result)]} :
         IF "status" \in DOMAIN result
         THEN /\ batch_results' = Counted(r, result)
              /\ file_index' = file_index + 1
              /\ UNCHANGED batch_ret
         ELSE /\ batch_results' = r
              /\ batch_ret' = [kind |-> "raised", value |-> "KeyError: 'status'"]
              /\ UNCHANGED file_index
    /\ result' = NotCalled
    /\ UNCHANGED <<pdf_files, dry_run, serviceVars, multiVars, parsed, fnVars,
                   loopVars, parseVars>>

\* after the loop: return results
BatchReturn ==
    /\ batch_ret = NotCalled /\ file_index = Len(pdf_files) + 1
    /\ batch_ret' = [kind |-> "ok", value |-> "results"]
    /\ UNCHANGED <<pdf_files, dry_run, file_index, batch_results, result,
                   serviceVars, multiVars, parsed, fnVars, loopVars, parseVars>>

InitBatch ==
    /\ config = DefaultConfig /\ arg = <<>> /\ ret = NotCalled
    /\ LoopIdle /\ ParseIdle /\ parsed = <<>> /\ MultiIdle
    /\ tables = EmptyTables /\ next_id = 1 /\ fault = FALSE
    /\ upload = [u \in Uploads |-> IdleUpload]
    /\ pdf_files \in PdfFileLists /\ dry_run \in BOOLEAN
    /\ file_index = 0 /\ batch_results = NoBatch
    /\ result = NotCalled /\ batch_ret = NotCalled

NextBatch ==
    \/ ProcessCtecBatch
    \/ ParseAndUploadCtec
    \/ UploadStep(1)
    \/ ParseAndUploadReturn
    \/ BatchRecord
    \/ BatchReturn

SpecBatch == InitBatch /\ [][NextBatch]_vars

\* two calls of upload_ctec_data for one offering key, interleaved
InitRace ==
    /\ config = DefaultConfig /\ arg = <<>> /\ ret = NotCalled
    /\ LoopIdle /\ ParseIdle /\ parsed = <<>> /\ MultiIdle
    /\ tables = EmptyTables /\ next_id = 1 /\ fault = FALSE
    /\ upload \in [Uploads -> {Called(DocA1), Called(DocA2)}]
    /\ BatchIdle

NextRace == \E u \in Uploads : UploadStep(u)

SpecRace == InitRace /\ [][NextRace]_vars


(***************************************************************************)
(* Claims about upload_ctec_data, parse_and_upload_ctec and                *)
(* process_ctec_batch.                                                     *)
(***************************************************************************)
\* what the tables hold for the offering `id`: the comment texts, the
\* questions rated, and the count of each option of each rated question
StoredFor(t, id) ==
    [comments |-> {r.content : r \in {c \in t.comments : c.course_offering_id = id}},
     ratings  |-> {r.survey_question_id :
                      r \in {x \in t.ratings : x.course_offering_id = id}},
     distributions |->
         {<<r.survey_question_id, d.option_id, d.count>> :
             <<r, d>> \in {x \in t.ratings \X t.ratings_distribution :
                              /\ x[1].course_offering_id = id
                              /\ x[2].rating_id = x[1].id}}]

\* the same, read off a parsed document
DerivedFrom(doc) ==
    [comments |-> {doc.comments[n] : n \in DOMAIN doc.comments},
     ratings  |-> {q.id : q \in {x \in SurveyQuestions :
                                    x.question \in DOMAIN doc.survey_responses}},
     distributions |->
         {<<x[1].id, x[2].id, doc.survey_responses[x[1].question][x[3]]>> :
             x \in {y \in SurveyQuestions \X SurveyQuestionOptions \X (1..6) :
                      /\ y[1].question \in DOMAIN doc.survey_responses
                      /\ y[2].survey_question_id = y[1].id
                      /\ y[3] \in DOMAIN doc.survey_responses[y[1].question]
                      /\ y[2].label = RatingLabels[y[3]]}}]

\* upload_ctec_data has just returned {'uploaded': True, ...}
ReturnedUploaded(u) ==
    /\ upload[u].pc = "done"
    /\ "uploaded" \in DOMAIN upload[u].ret

\* C22: after an upload that returned uploaded=True, the comments, ratings
\* and rating distributions stored for its offering are exactly those
\* derived from the uploaded document.
C22_StoredIsThisUpload ==
    ReturnedUploaded(1) =>
        StoredFor(tables, upload[1].course_offering_id) = DerivedFrom(upload[1].ctec_data)

\* the same when no call of the database has failed
C22_StoredIsThisUploadWithoutFault ==
    (ReturnedUploaded(1) /\ ~fault) =>
        StoredFor(tables, upload[1].course_offering_id) = DerivedFrom(upload[1].ctec_data)

\* uploaded=True after the same document was uploaded before it
C22_SecondUploadReturned ==
    /\ ReturnedUploaded(1) /\ ~fault /\ file_index = 2
    /\ pdf_files[1] = pdf_files[2]
    /\ upload[1].ctec_data = DocA1
    /\ upload[1].ret.snapshot_cleared.comments_deleted = 2


\* C23: the records handed to insert_comments have pairwise distinct
\* content_hash values, each the SHA-256 of its content; there is exactly one
\* record for each distinct comment string of the document; and every record
\* carries the id of the offering.
C23_OneRecordPerCommentText ==
    \A u \in Uploads :
        upload[u].comment_data # <<>> =>
            LET data  == upload[u].comment_data
                texts == upload[u].ctec_data.comments
            IN  /\ \A n, k \in DOMAIN data :
                      n # k => data[n].content_hash # data[k].content_hash
                /\ \A n \in DOMAIN data :
                      /\ data[n].content_hash = Sha256(data[n].content)
                      /\ data[n].course_offering_id = upload[u].course_offering_id
                /\ {data[n].content : n \in DOMAIN data} =
                      {texts[n] : n \in DOMAIN texts}
                /\ Len(data) = Cardinality({texts[n] : n \in DOMAIN texts})

\* insert_comments got two records for a document with three comments
C23_Witness ==
    /\ Len(upload[1].comment_data) = 2
    /\ Len(upload[1].ctec_data.comments) = 3
    /\ \E n \in DOMAIN upload[1].log : upload[1].log[n].step = "insert_comments"


\* no two rows of `rows` agree on the column `col`
UniqueOn(rows, col) == \A r1, r2 \in rows : r1[col] = r2[col] => r1 = r2

\* the course and the instructor an upload holds are the rows of its course
\* code and of its instructor name
HoldsNaturalRows(t, up) ==
    /\ up.course_id # None =>
          \E r \in t.courses :
              r.id = up.course_id /\ r.code = up.ctec_data.course_info.code
    /\ up.instructor_id # None =>
          \E r \in t.instructors :
              r.id = up.instructor_id /\ r.name = up.ctec_data.course_info.instructor

\* C24: through any sequence of uploads there is at most one course row for
\* a course code and at most one instructor row for an instructor name; a
\* row once written stays as it is, and an upload holds as course_id and
\* instructor_id the ids of the rows of its code and name, so an existing
\* code or name is reused and no second row is created for it.
C24_OneRowPerNaturalKey ==
    [][/\ UniqueOn(tables'.courses, "code")
       /\ UniqueOn(tables'.instructors, "name")
       /\ tables.courses \subseteq tables'.courses
       /\ tables.instructors \subseteq tables'.instructors
       /\ \A u \in Uploads : upload'[u].pc # "idle" => HoldsNaturalRows(tables', upload'[u])]_vars

\* the second upload of a directory has taken the course and the instructor
\* that the first one created
C24_Witness ==
    /\ file_index = 2
    /\ upload[1].pc = "upsert_course_offering_returning_id"
    /\ upload[1].course_id = 1 /\ upload[1].instructor_id = 2
    /\ Cardinality(tables.courses) = 1 /\ Cardinality(tables.instructors) = 1


\* the rows of course_offerings with the offering key of the upload
RowsOfKey(up) ==
    {r \in tables.course_offerings :
        KeyOf(r, OfferingKey) = KeyOf(OfferingData(up), OfferingKey)}

CurrentFile == pdf_files[file_index]

\* the record of a dry run on a file that parses
DryRunRecord ==
    /\ dry_run /\ result # NotCalled
    /\ CurrentFile.exists /\ CurrentFile.parse.kind = "ok"

\* a dry run calls no upload and reads and writes no table; its record for
\* a file that parses has status 'success' and the parsed course info
DryRunTouchesNothing ==
    dry_run =>
        /\ tables = EmptyTables /\ next_id = 1 /\ ~fault
        /\ \A u \in Uploads : upload[u] = IdleUpload
        /\ DryRunRecord =>
              /\ "status" \in DOMAIN result /\ result.status = "success"
              /\ result.course_info =
                    CourseInfoRecord(CurrentFile.parse.ctec_data.course_info)

\* C26: with dry_run=True no upload is called and no table is read or
\* written, and the record of a parsed file has status 'success', the parsed
\* course info, and as counts the numbers of comment records and of ratings
\* that the upload of the document would insert.
C26_DryRunPreviewsTheUpload ==
    /\ DryRunTouchesNothing
    /\ DryRunRecord =>
          LET doc == CurrentFile.parse.ctec_data
          IN  /\ result.upload_results.comments_uploaded =
                    Len(UniqueComments(doc.comments, "dry-run-id"))
              /\ result.upload_results.ratings_uploaded =
                    Cardinality(DerivedFrom(doc).ratings)

\* a dry run has reported 3 comments for a document with 2 distinct ones
C26_DryRunCountsEveryComment ==
    /\ DryRunRecord
    /\ CurrentFile.parse.ctec_data = DocA1
    /\ result.upload_results.comments_uploaded = 3

\* the upload of the same document reports 2
C26_UploadCountsDistinctComments ==
    /\ ~dry_run /\ ReturnedUploaded(1)
    /\ upload[1].ctec_data = DocA1
    /\ upload[1].ret.comments_uploaded = 2


\* the calls of an upload in the order of its steps
StepOrder ==
    <<"get_courses_lookup", "create_course", "upsert_instructors",
      "get_instructors_lookup", "upsert_course_offering_returning_id",
      "clear_offering_snapshot_data", "insert_comments",
      "get_survey_questions_lookup", "insert_ratings", "get_ratings_by_offering",
      "insert_rating_distributions">>

StepRank(step) == CHOOSE n \in DOMAIN StepOrder : StepOrder[n] = step

\* the steps run in their order, and comments and ratings are inserted only
\* after a snapshot clear that reported no error
RunsInOrder(up) ==
    /\ \A n \in 1..(Len(up.log) - 1) :
          StepRank(up.log[n].step) < StepRank(up.log[n + 1].step)
    /\ \A n \in DOMAIN up.log :
          up.log[n].step \in {"insert_comments", "insert_ratings"} =>
              \E k \in 1..(n - 1) :
                  /\ up.log[k].step = "clear_offering_snapshot_data"
                  /\ ~up.log[k].errors

\* a step that reports an error is the last one, and the record returned
\* after it is an error record
StopsAtError(up) ==
    \A n \in DOMAIN up.log :
        up.log[n].errors =>
            /\ n = Len(up.log)
            /\ up.pc = "done" /\ "uploaded" \notin DOMAIN up.ret

\* the order and the clear before the inserts, by themselves
UploadRunsInOrder == \A u \in Uploads : RunsInOrder(upload[u])

\* C29: the steps of upload_ctec_data run in their order; no comment or
\* rating is inserted unless the snapshot clear returned without errors;
\* and when a step reports an error no later step runs and the record
\* returned is an error record, never one with uploaded=True.
C29_FailStopInOrder ==
    \A u \in Uploads : RunsInOrder(upload[u]) /\ StopsAtError(upload[u])

\* insert_ratings reported an error and the upload returned uploaded=True
C29_RatingErrorSwallowed ==
    /\ ReturnedUploaded(1)
    /\ upload[1].log[Len(upload[1].log)] = [step |-> "insert_ratings", errors |-> TRUE]
    /\ upload[1].ret.ratings_uploaded = 0


\* the record of one file carries a 'status' of 'success' or 'error'
HasStatus(r) == "status" \in DOMAIN r /\ r.status \in {"success", "error"}

\* every file is classified once: no record without a status, no exception
\* out of the loop, and at the return one entry per file, in order, with
\* the three counters adding up to total_files
EveryFileClassified ==
    /\ result # NotCalled => HasStatus(result)
    /\ batch_ret # NotCalled => batch_ret.kind = "ok"
    /\ (batch_ret # NotCalled /\ batch_ret.value = "results") =>
          /\ Len(batch_results.files_processed) = Len(pdf_files)
          /\ \A n \in DOMAIN pdf_files :
                /\ HasStatus(batch_results.files_processed[n])
                /\ batch_results.files_processed[n].file = n
          /\ batch_results.total_files = Len(pdf_files)
          /\ batch_results.successful_uploads + batch_results.parse_failures
                + batch_results.upload_failures = batch_results.total_files

\* C30: process_ctec_batch classifies every file exactly once and no file
\* stops it: every record of parse_and_upload_ctec has a 'status' of
\* 'success' or 'error', files_processed gets one entry per PDF in order,
\* and at the end the three counters add up to total_files.
C30_EveryFileClassifiedOnce == EveryFileClassified

\* the same for directories in which every listed name has a file behind it
C30_ClassifiedWhenFilesExist ==
    (\A n \in DOMAIN pdf_files : pdf_files[n].exists) => EveryFileClassified

\* a listed name without a file ended the batch with KeyError, before the
\* second file was looked at
C30_MissingFileStopsBatch ==
    /\ batch_ret # NotCalled /\ batch_ret.kind = "raised"
    /\ Len(pdf_files) = 2 /\ ~pdf_files[1].exists
    /\ Len(batch_results.files_processed) = 1

=============================================================================
